---------------------------- MODULE Spec2Model ----------------------------
(***************************************************************************)
(* A model of the Riva vault SDK: the numeric engine (overflow-checked     *)
(* fixed-point conversions carried out with bignumber.js), the validation  *)
(* layer, the build-only call builders and the RivaClient facade that      *)
(* appends calls to a caller-owned Transaction.                            *)
(*                                                                         *)
(* Amounts reach 2^64-1 and intermediate products reach 2^128, so natural  *)
(* numbers are kept as sequences of limbs.  Strings are sequences of       *)
(* one-character strings; the texts handed to TextEncoder are sequences    *)
(* of code points.                                                         *)
(***************************************************************************)
EXTENDS Integers, Sequences, FiniteSets, TLC

VARIABLES
  mathOp,      \* the numeric-engine function applied, "none" before the call
  mathArgs,    \* its arguments: two bigints and the rate decimals
  mathResult,  \* what the call returned or threw
  tx,          \* the caller's Transaction: its inputs and its commands
  pending,     \* the facade operations suspended at a getObject query
  started,     \* the number of facade operations invoked so far
  last,        \* the facade operation that settled most recently
  COIN_REGISTRY, \* the registry of coin metadata, a module-level object
  retrying     \* the locals of the one retry() call in progress

mathVars == <<mathOp, mathArgs, mathResult>>

clientVars == <<tx, pending, started, last>>

utilVars == <<COIN_REGISTRY, retrying>>

vars == <<mathVars, clientVars, utilVars>>

\* ------------------------------------------------------------------------
\* Arbitrary-precision naturals (the coefficient arithmetic of BigInt and
\* of bignumber.js): sequences of limbs in base 10^4, least significant
\* limb first, without leading zero limbs; zero is the empty sequence.
\* ------------------------------------------------------------------------

Base == 10 ^ 4

LimbDigits == 2 + 2

Max(S) == CHOOSE m \in S : \A k \in S : k <= m

Trim(s) ==
  LET nz == {i \in 1..Len(s) : s[i] # 0}
  IN  IF nz = {} THEN <<>> ELSE SubSeq(s, 1, Max(nz))

\* -1, 0 or 1 as a < b, a = b, a > b
NatCmp(a, b) ==
  IF Len(a) < Len(b) THEN -1
  ELSE IF Len(a) > Len(b) THEN 1
  ELSE LET diff == {i \in 1..Len(a) : a[i] # b[i]}
       IN  IF diff = {} THEN 0
           ELSE IF a[Max(diff)] < b[Max(diff)] THEN -1 ELSE 1

RECURSIVE AddFrom(_, _, _, _)
AddFrom(a, b, i, carry) ==
  IF i > Len(a) /\ i > Len(b)
  THEN IF carry = 0 THEN <<>> ELSE <<carry>>
  ELSE LET da == IF i <= Len(a) THEN a[i] ELSE 0
           db == IF i <= Len(b) THEN b[i] ELSE 0
           s  == da + db + carry
       IN  <<s % Base>> \o AddFrom(a, b, i + 1, s \div Base)

NatAdd(a, b) == AddFrom(a, b, 1, 0)

\* a - b for a >= b
RECURSIVE SubFrom(_, _, _, _)
SubFrom(a, b, i, borrow) ==
  IF i > Len(a) THEN <<>>
  ELSE LET db == IF i <= Len(b) THEN b[i] ELSE 0
           s  == a[i] - db - borrow
       IN  IF s < 0
           THEN <<s + Base>> \o SubFrom(a, b, i + 1, 1)
           ELSE <<s>> \o SubFrom(a, b, i + 1, 0)

NatSub(a, b) == Trim(SubFrom(a, b, 1, 0))

RECURSIVE MulLimbFrom(_, _, _, _)
MulLimbFrom(a, m, i, carry) ==
  IF i > Len(a)
  THEN IF carry = 0 THEN <<>> ELSE <<carry>>
  ELSE LET s == a[i] * m + carry
       IN  <<s % Base>> \o MulLimbFrom(a, m, i + 1, s \div Base)

\* a * m for a limb m
NatMulLimb(a, m) == IF m = 0 THEN <<>> ELSE MulLimbFrom(a, m, 1, 0)

\* a * Base^k
LimbShift(a, k) == IF a = <<>> THEN <<>> ELSE [i \in 1..k |-> 0] \o a

RECURSIVE NatMul(_, _)
NatMul(a, b) ==
  IF b = <<>> \/ a = <<>> THEN <<>>
  ELSE NatAdd(NatMulLimb(a, b[1]), LimbShift(NatMul(a, Tail(b)), 1))

\* a * 10^k
NatShift(a, k) == LimbShift(NatMulLimb(a, 10 ^ (k % LimbDigits)), k \div LimbDigits)

\* the largest q in lo..hi with q * b <= r, where lo * b <= r
RECURSIVE QuotLimb(_, _, _, _)
QuotLimb(r, b, lo, hi) ==
  IF lo = hi THEN lo
  ELSE LET mid == (lo + hi + 1) \div 2
       IN  IF NatCmp(NatMulLimb(b, mid), r) <= 0
           THEN QuotLimb(r, b, mid, hi)
           ELSE QuotLimb(r, b, lo, mid - 1)

\* long division of the limbs i..Len(a) of a by b > 0: the quotient, most
\* significant limb first, and the remainder
RECURSIVE DivFrom(_, _, _)
DivFrom(a, b, i) ==
  IF i > Len(a) THEN [q |-> <<>>, r |-> <<>>]
  ELSE LET p  == DivFrom(a, b, i + 1)
           r1 == Trim(<<a[i]>> \o p.r)
           q1 == IF NatCmp(r1, b) < 0 THEN 0 ELSE QuotLimb(r1, b, 1, Base - 1)
       IN  [q |-> Append(p.q, q1), r |-> NatSub(r1, NatMulLimb(b, q1))]

\* floor(a / b) and a mod b, for b > 0
NatDivMod(a, b) ==
  LET d == DivFrom(a, b, 1)
  IN  [q |-> Trim([i \in 1..Len(d.q) |-> d.q[Len(d.q) + 1 - i]]), r |-> d.r]

NatDiv(a, b) == NatDivMod(a, b).q

\* a small natural
RECURSIVE NatOf(_)
NatOf(n) ==
  IF n = 0 THEN <<>> ELSE <<n % Base>> \o NatOf(n \div Base)

NatPow10(k) == NatShift(<<1>>, k)

\* the number of decimal digits of a (0 for zero)
NatLen10(a) ==
  IF a = <<>> THEN 0
  ELSE LimbDigits * (Len(a) - 1)
         + Max({j \in 1..LimbDigits : a[Len(a)] >= 10 ^ (j - 1)})

\* the decimal digits of a, most significant first (empty for zero)
NatDigits(a) ==
  [p \in 1..NatLen10(a) |->
     LET k == NatLen10(a) - p
     IN  (a[(k \div LimbDigits) + 1] \div (10 ^ (k % LimbDigits))) % 10]

\* the natural with the decimal digits ds, most significant first
NatOfDigits(ds) ==
  LET n == Len(ds)
      digit(k) == IF k < n THEN ds[n - k] ELSE 0
  IN  Trim([l \in 1..((n + LimbDigits - 1) \div LimbDigits) |->
               digit(LimbDigits * (l - 1))
             + 10 * digit(LimbDigits * (l - 1) + 1)
             + 100 * digit(LimbDigits * (l - 1) + 2)
             + 1000 * digit(LimbDigits * (l - 1) + 3)])

\* ------------------------------------------------------------------------
\* Strings, BigInt and BigNumber values
\* ------------------------------------------------------------------------

DigitChars == <<"0", "1", "2", "3", "4", "5", "6", "7", "8", "9">>

IsDigitChar(c) == \E d \in 1..10 : DigitChars[d] = c

\* digits as characters
CharsOf(ds) == [i \in 1..Len(ds) |-> DigitChars[ds[i] + 1]]

\* the decimal digits of a natural as a string ("0" for zero)
NatToString(a) == IF a = <<>> THEN <<"0">> ELSE CharsOf(NatDigits(a))

\* a decimal literal written most significant digit first
NatOfString(str) ==
  NatOfDigits([i \in 1..Len(str) |->
                 (CHOOSE d \in 1..10 : DigitChars[d] = str[i]) - 1])

\* A bigint is [neg, mag]; zero is never negative.
Big(neg, mag) == [neg |-> neg /\ mag # <<>>, mag |-> mag]

\* BigInt.prototype.toString(): plain decimal digits at every magnitude
BigIntToString(x) ==
  (IF x.neg THEN <<"-">> ELSE <<>>) \o NatToString(x.mag)

\* BigInt(string): an optional sign and decimal digits, the empty string is 0n;
\* anything else (an exponent, a decimal point, a letter) is a SyntaxError
BigIntOfString(str) ==
  LET signed == str # <<>> /\ str[1] \in {"-", "+"}
      body   == IF signed THEN Tail(str) ELSE str
  IN  IF str = <<>> THEN [ok |-> TRUE, value |-> Big(FALSE, <<>>)]
      ELSE IF body # <<>> /\ \A i \in 1..Len(body) : IsDigitChar(body[i])
      THEN [ok |-> TRUE, value |-> Big(str[1] = "-", NatOfString(body))]
      ELSE [ok |-> FALSE, value |-> Big(FALSE, <<>>)]

MAX_U64 ==
  BigIntOfString(<<"1", "8", "4", "4", "6", "7", "4", "4", "0", "7",
                   "3", "7", "0", "9", "5", "5", "1", "6", "1", "5">>).value

\* BigNumber.config of the numeric engine
DECIMAL_PLACES == 18
TO_EXP_POS == 18

\* A BigNumber is [neg, c, dp]: the value (-1)^neg * c / 10^dp.
\* new BigNumber(string) of a decimal integer literal
BigNumber(str) ==
  LET signed == str # <<>> /\ str[1] \in {"-", "+"}
      body   == IF signed THEN Tail(str) ELSE str
  IN  [neg |-> signed /\ str[1] = "-", c |-> NatOfString(body), dp |-> 0]

\* new BigNumber(10).pow(n), n a natural: exact
BNpow10(n) == [neg |-> FALSE, c |-> NatPow10(n), dp |-> 0]

BNisZero(x) == x.c = <<>>

BNlt0(x) == x.neg /\ ~BNisZero(x)

BNlte0(x) == x.neg \/ BNisZero(x)

\* the coefficients of x and y over a common power of ten
BNaligned(x, y) ==
  LET dp == IF x.dp > y.dp THEN x.dp ELSE y.dp
  IN  [x |-> NatShift(x.c, dp - x.dp), y |-> NatShift(y.c, dp - y.dp)]

\* a comparison that also holds of equal values
BNgtOrEqual(x, y) ==
  LET a == BNaligned(x, y)
      m == NatCmp(a.x, a.y)
  IN  IF BNlt0(x) /\ ~BNlt0(y) THEN FALSE
      ELSE IF ~BNlt0(x) /\ BNlt0(y) THEN TRUE
      ELSE IF BNlt0(x) THEN m <= 0 ELSE m >= 0

\* x.gt(y)
BNgt(x, y) ==
  LET a == BNaligned(x, y)
      m == NatCmp(a.x, a.y)
  IN  IF BNlt0(x) /\ ~BNlt0(y) THEN FALSE
      ELSE IF ~BNlt0(x) /\ BNlt0(y) THEN TRUE
      ELSE IF BNlt0(x) THEN m < 0 ELSE m > 0

\* x.multipliedBy(y): exact
BNmultipliedBy(x, y) ==
  [neg |-> x.neg # y.neg, c |-> NatMul(x.c, y.c), dp |-> x.dp + y.dp]

\* x.div(y), y # 0: the quotient cut (ROUND_DOWN) to DECIMAL_PLACES decimals
BNdiv(x, y) ==
  [neg |-> x.neg # y.neg,
   c   |-> NatDiv(NatShift(x.c, DECIMAL_PLACES + y.dp), NatShift(y.c, x.dp)),
   dp  |-> DECIMAL_PLACES]

\* an integerValue that rounds away from zero
BNintegerValueRoundUp(x) ==
  LET d == NatDivMod(x.c, NatPow10(x.dp))
  IN  [neg |-> x.neg,
       c   |-> IF d.r = <<>> THEN d.q ELSE NatAdd(d.q, <<1>>),
       dp  |-> 0]

\* x.integerValue(): ROUNDING_MODE is ROUND_DOWN, towards zero
BNintegerValue(x) ==
  [neg |-> x.neg, c |-> NatDiv(x.c, NatPow10(x.dp)), dp |-> 0]

\* x.toString() of an integer-valued x: exponential notation from the
\* exponent TO_EXP_POS on (EXPONENTIAL_AT), fixed notation below it
BNtoString(x) ==
  LET e    == NatLen10(x.c) - 1
      sign == IF x.neg /\ x.c # <<>> THEN <<"-">> ELSE <<>>
      \* the digits of the coefficient without their trailing zeros
      coef == CharsOf(Trim(NatDigits(x.c)))
  IN  IF x.c = <<>> THEN <<"0">>
      ELSE IF e >= TO_EXP_POS
      THEN sign \o <<Head(coef)>>
                \o (IF Len(coef) > 1 THEN <<".">> \o Tail(coef) ELSE <<>>)
                \o <<"e", "+">> \o NatToString(NatOf(e))
      ELSE sign \o NatToString(x.c)

\* ------------------------------------------------------------------------
\* Numeric engine
\* ------------------------------------------------------------------------

Returned(v) == [kind |-> "ok", code |-> "", at |-> "", value |-> v]

\* no call made yet
NoResult == [kind |-> "none", code |-> "", at |-> "", value |-> Big(FALSE, <<>>)]

\* a thrown VaultError with its code; at names the check that raised it
Thrown(code, at) ==
  [kind |-> "VaultError", code |-> code, at |-> at, value |-> Big(FALSE, <<>>)]

\* the SyntaxError of BigInt(...) on a string that is no integer literal
SyntaxError ==
  [kind |-> "SyntaxError", code |-> "", at |-> "BigInt", value |-> Big(FALSE, <<>>)]

\* BigInt(result.integerValue().toString())
ToBigInt(result) ==
  LET parsed == BigIntOfString(BNtoString(BNintegerValue(result)))
  IN  IF parsed.ok THEN Returned(parsed.value) ELSE SyntaxError

\* variant: the multiplication pre-check is left out
calculateOutputAmountUnchecked(rate, inputValue, rateDecimals) ==
  LET rateBN   == BigNumber(BigIntToString(rate))
      inputBN  == BigNumber(BigIntToString(inputValue))
      divisor  == BNpow10(rateDecimals)
      result   == BNdiv(BNmultipliedBy(rateBN, inputBN), divisor)
  IN  IF BNlte0(rateBN) THEN Thrown("DIVISION_BY_ZERO", "rate")
      ELSE IF BNlt0(inputBN) THEN Thrown("INVALID_PARAMETERS", "input")
      ELSE IF BNgt(result, BigNumber(BigIntToString(MAX_U64)))
      THEN Thrown("ARITHMETIC_OVERFLOW", "post")
      ELSE ToBigInt(result)

calculateOutputAmount(rate, inputValue, rateDecimals) ==
  LET rateBN   == BigNumber(BigIntToString(rate))
      inputBN  == BigNumber(BigIntToString(inputValue))
      divisor  == BNpow10(rateDecimals)
      maxInput == BNdiv(BigNumber(BigIntToString(MAX_U64)), rateBN)
      result   == BNdiv(BNmultipliedBy(rateBN, inputBN), divisor)
  IN  IF BNlte0(rateBN) THEN Thrown("DIVISION_BY_ZERO", "rate")
      ELSE IF BNlt0(inputBN) THEN Thrown("INVALID_PARAMETERS", "input")
      ELSE IF BNgt(inputBN, maxInput) THEN Thrown("ARITHMETIC_OVERFLOW", "pre")
      ELSE IF BNgt(result, BigNumber(BigIntToString(MAX_U64)))
      THEN Thrown("ARITHMETIC_OVERFLOW", "post")
      ELSE ToBigInt(result)

calculateInputAmount(rate, outputValue, rateDecimals) ==
  LET rateBN     == BigNumber(BigIntToString(rate))
      outputBN   == BigNumber(BigIntToString(outputValue))
      multiplier == BNpow10(rateDecimals)
      maxOutput  == BNdiv(BigNumber(BigIntToString(MAX_U64)), multiplier)
      result     == BNdiv(BNmultipliedBy(outputBN, multiplier), rateBN)
  IN  IF BNlte0(rateBN) THEN Thrown("DIVISION_BY_ZERO", "rate")
      ELSE IF BNlt0(outputBN) THEN Thrown("INVALID_PARAMETERS", "output")
      ELSE IF BNgt(outputBN, maxOutput) THEN Thrown("ARITHMETIC_OVERFLOW", "pre")
      ELSE IF BNgt(result, BigNumber(BigIntToString(MAX_U64)))
      THEN Thrown("ARITHMETIC_OVERFLOW", "post")
      ELSE ToBigInt(result)

calculateExchangeRate(inputAmount, outputAmount, rateDecimals) ==
  LET inputBN    == BigNumber(BigIntToString(inputAmount))
      outputBN   == BigNumber(BigIntToString(outputAmount))
      multiplier == BNpow10(rateDecimals)
      rate       == BNdiv(BNmultipliedBy(outputBN, multiplier), inputBN)
  IN  IF BNlte0(inputBN) THEN Thrown("DIVISION_BY_ZERO", "input")
      ELSE IF BNgt(rate, BigNumber(BigIntToString(MAX_U64)))
      THEN Thrown("ARITHMETIC_OVERFLOW", "post")
      ELSE ToBigInt(rate)

\* ------------------------------------------------------------------------
\* String operations of the validators and of the Sui transaction library
\* ------------------------------------------------------------------------

UpperChars == <<"A", "B", "C", "D", "E", "F", "G", "H", "I", "J", "K", "L",
                "M", "N", "O", "P", "Q", "R", "S", "T", "U", "V", "W", "X",
                "Y", "Z">>

LowerChars == <<"a", "b", "c", "d", "e", "f", "g", "h", "i", "j", "k", "l",
                "m", "n", "o", "p", "q", "r", "s", "t", "u", "v", "w", "x",
                "y", "z">>

IsAlpha(c) == \E i \in 1..Len(UpperChars) : UpperChars[i] = c \/ LowerChars[i] = c

\* [0-9a-fA-F]
IsHexChar(c) ==
  IsDigitChar(c) \/ \E i \in 1..6 : UpperChars[i] = c \/ LowerChars[i] = c

\* String.prototype.toLowerCase() on ASCII text
toLowerCase(s) ==
  [i \in 1..Len(s) |->
     IF \E k \in 1..Len(UpperChars) : UpperChars[k] = s[i]
     THEN LowerChars[CHOOSE k \in 1..Len(UpperChars) : UpperChars[k] = s[i]]
     ELSE s[i]]

startsWith(s, prefix) ==
  Len(s) >= Len(prefix) /\ SubSeq(s, 1, Len(prefix)) = prefix

\* s.slice(n)
slice(s, n) == SubSeq(s, n + 1, Len(s))

\* s.padStart(n, c)
padStart(s, n, c) ==
  IF Len(s) >= n THEN s ELSE [i \in 1..(n - Len(s)) |-> c] \o s

\* s.split('::'): the separators are found left to right without overlap, so
\* in a run of colons they start at the 1st, 3rd, ... colon of the run
split(s) ==
  LET runStart(i) == CHOOSE j \in 1..i :
                       /\ \A k \in j..i : s[k] = ":"
                       /\ (j = 1 \/ s[j - 1] # ":")
      seps == {i \in 1..(Len(s) - 1) :
                 s[i] = ":" /\ s[i + 1] = ":" /\ (i - runStart(i)) % 2 = 0}
      n    == Cardinality(seps)
      nth(k) == CHOOSE i \in seps : Cardinality({j \in seps : j < i}) = k - 1
  IN  [k \in 1..(n + 1) |->
         SubSeq(s, IF k = 1 THEN 1 ELSE nth(k - 1) + 2,
                   IF k = n + 1 THEN Len(s) ELSE nth(k) - 1)]

\* /^[a-zA-Z_][a-zA-Z0-9_]*$/
IsIdentifier(s) ==
  /\ s # <<>>
  /\ IsAlpha(s[1]) \/ s[1] = "_"
  /\ \A i \in 1..Len(s) : IsAlpha(s[i]) \/ IsDigitChar(s[i]) \/ s[i] = "_"

\* an encoding that writes one byte for every code point
TextEncodeBytewise(text) == [i \in 1..Len(text) |-> text[i] % 256]

\* new TextEncoder().encode(text): the UTF-8 bytes of a text given by its
\* code points (none of them a surrogate)
TextEncode(text) ==
  LET bytes(cp) ==
        IF cp < 128 THEN <<cp>>
        ELSE IF cp < 2048 THEN <<192 + (cp \div 64), 128 + (cp % 64)>>
        ELSE IF cp < 65536
        THEN <<224 + (cp \div 4096), 128 + ((cp \div 64) % 64), 128 + (cp % 64)>>
        ELSE <<240 + (cp \div 262144), 128 + ((cp \div 4096) % 64),
               128 + ((cp \div 64) % 64), 128 + (cp % 64)>>
      width(cp) == Len(bytes(cp))
      \* the number of bytes of the code points before the i-th
      before(i) == (i - 1)
                   + Cardinality({k \in 1..(i - 1) : text[k] >= 128})
                   + Cardinality({k \in 1..(i - 1) : text[k] >= 2048})
                   + Cardinality({k \in 1..(i - 1) : text[k] >= 65536})
      total == before(Len(text) + 1)
  IN  [b \in 1..total |->
         LET i == CHOOSE k \in 1..Len(text) :
                    before(k) < b /\ b <= before(k) + width(text[k])
         IN  bytes(text[i])[b - before(i)]]

\* text.length: UTF-16 code units
StringLength(text) ==
  Len(text) + Cardinality({i \in 1..Len(text) : text[i] >= 65536})

\* ------------------------------------------------------------------------
\* Validators
\* ------------------------------------------------------------------------

NoError == [kind |-> "none", code |-> "", at |-> ""]

\* a thrown error: its class, the VaultError code if it is one, and the
\* function that threw it; the errors of the validators carry in "about"
\* the value or the field their message names
Err(kind, code, at) == [kind |-> kind, code |-> code, at |-> at]

\* variant: at most 63 hex digits
isValidSuiAddressBelow64(address) ==
  /\ address # <<>>
  /\ startsWith(address, <<"0", "x">>)
  /\ LET hex == slice(address, 2)
     IN  /\ hex # <<>>
         /\ \A i \in 1..Len(hex) : IsHexChar(hex[i])
         /\ Len(hex) < 64

isValidSuiAddress(address) ==
  /\ address # <<>>
  /\ startsWith(address, <<"0", "x">>)
  /\ LET hex == slice(address, 2)
     IN  /\ hex # <<>>
         /\ \A i \in 1..Len(hex) : IsHexChar(hex[i])
         /\ Len(hex) <= 64

\* variant: the module name may start with a digit
isValidCoinTypeAnyModule(coinType) ==
  /\ coinType # <<>>
  /\ LET parts == split(coinType)
     IN  /\ Len(parts) = 3
         /\ isValidSuiAddress(parts[1])
         /\ parts[2] # <<>>
         /\ IsIdentifier(parts[3])

isValidCoinType(coinType) ==
  /\ coinType # <<>>
  /\ LET parts == split(coinType)
     IN  /\ Len(parts) = 3
         /\ isValidSuiAddress(parts[1])
         /\ IsIdentifier(parts[2])
         /\ IsIdentifier(parts[3])

validateCoinType(coinType) ==
  IF isValidCoinType(coinType) THEN NoError
  ELSE Err("Error", "", "validateCoinType") @@ [about |-> coinType]

\* x.toString() of a string, a bigint or a number.  A number is NaN, an
\* infinity or finite; a finite number is given by its sign, its integer
\* part and the digits of its fraction, and its text is the decimal
\* literal below 10^21 and the exponent form from 10^21 on
toStringOf(x) ==
  LET num      == x.num
      digits   == NatToString(num.int)
      zero     == num.int = <<>> /\ num.frac = <<>>
      sign     == IF num.neg /\ ~zero THEN <<"-">> ELSE <<>>
      nonZero  == {i \in 1..Len(digits) : digits[i] # "0"}
      lastDigit == CHOOSE i \in nonZero : \A j \in nonZero : j <= i
      mantissa == <<digits[1]>>
                  \o (IF lastDigit > 1
                      THEN <<".">> \o SubSeq(digits, 2, lastDigit) ELSE <<>>)
  IN  CASE x.type = "string" -> x.str
        [] x.type = "bigint" -> BigIntToString(x.big)
        [] x.type = "number" /\ num.kind = "NaN" -> <<"N", "a", "N">>
        [] x.type = "number" /\ num.kind = "Infinity" ->
             (IF num.neg THEN <<"-">> ELSE <<>>) \o <<"I", "n", "f", "i",
                                                      "n", "i", "t", "y">>
        [] x.type = "number" /\ num.kind = "finite" /\ num.frac # <<>> ->
             sign \o digits \o <<".">> \o num.frac
        [] x.type = "number" /\ num.kind = "finite" /\ num.frac = <<>>
           /\ Len(digits) <= 21 -> sign \o digits
        [] OTHER ->
             sign \o mantissa \o <<"e", "+">> \o NatToString(NatOf(Len(digits) - 1))

\* BigInt(amount.toString()) >= 0n, false when BigInt throws
isValidAmount(amount) ==
  LET parsed == BigIntOfString(toStringOf(amount))
  IN  parsed.ok /\ ~parsed.value.neg

\* validateAmount(amount): the error it throws, if any, and the bigint it
\* returns
validateAmount(amount) ==
  LET parsed == BigIntOfString(toStringOf(amount))
  IN  IF ~isValidAmount(amount)
      THEN [error |-> Err("Error", "", "validateAmount") @@ [about |-> amount],
            value |-> parsed.value]
      ELSE IF parsed.value.neg
      THEN [error |-> Err("Error", "", "validateAmount") @@ [about |-> amount],
            value |-> parsed.value]
      ELSE [error |-> NoError, value |-> parsed.value]

\* BigInt(rate.toString()) > 0n, false when BigInt throws
isValidRate(rate) ==
  LET parsed == BigIntOfString(toStringOf(rate))
  IN  parsed.ok /\ ~parsed.value.neg /\ parsed.value.mag # <<>>

validateRate(rate) ==
  LET parsed == BigIntOfString(toStringOf(rate))
  IN  IF ~isValidRate(rate)
      THEN [error |-> Err("Error", "", "validateRate") @@ [about |-> rate],
            value |-> parsed.value]
      ELSE IF parsed.value.neg \/ parsed.value.mag = <<>>
      THEN [error |-> Err("Error", "", "validateRate") @@ [about |-> rate],
            value |-> parsed.value]
      ELSE [error |-> NoError, value |-> parsed.value]

\* the largest number of rate decimals
MAX_RATE_DECIMALS == 18

validateRateDecimals(decimals) ==
  IF decimals < 0 \/ decimals > MAX_RATE_DECIMALS
  THEN Err("Error", "", "validateRateDecimals") @@ [about |-> decimals]
  ELSE NoError

\* new URL(url) succeeds: the text opens with a scheme, and behind a special
\* scheme other than file: stands a host without forbidden characters
\* (credentials and ports are not followed)
isValidUrl(url) ==
  LET colons == {i \in 1..Len(url) : url[i] = ":"}
      first  == CHOOSE i \in colons : \A j \in colons : i <= j
      scheme == toLowerCase(SubSeq(url, 1, first - 1))
      rest   == slice(url, first)
      slashes == {i \in 0..Len(rest) :
                    \A k \in 1..i : rest[k] \in {"/", "\\"}}
      body   == slice(rest, Max(slashes))
      ends   == {i \in 1..Len(body) : body[i] \in {"/", "\\", "?", "#"}}
      host   == IF ends = {} THEN body
                ELSE SubSeq(body, 1, (CHOOSE i \in ends : \A j \in ends : i <= j) - 1)
  IN  /\ colons # {}
      /\ scheme # <<>>
      /\ IsAlpha(scheme[1])
      /\ \A i \in 1..Len(scheme) :
           IsAlpha(scheme[i]) \/ IsDigitChar(scheme[i]) \/ scheme[i] \in {"+", "-", "."}
      /\ scheme \in {<<"h", "t", "t", "p">>, <<"h", "t", "t", "p", "s">>, <<"w",
                                                                            "s">>, <<"w",
                                                                                     "s",
                                                                                     "s">>, <<"f",
                                                                                              "t",
                                                                                              "p">>} =>
           /\ host # <<>>
           /\ \A i \in 1..Len(host) : host[i] \notin {" ", "<", ">", "^", "|"}

validateUrl(url) ==
  IF isValidUrl(url) THEN NoError
  ELSE Err("Error", "", "validateUrl") @@ [about |-> url]

validateStringLength(value, min, max, fieldName) ==
  IF StringLength(value) < min \/ StringLength(value) > max
  THEN Err("Error", "", "validateStringLength") @@ [about |-> fieldName]
  ELSE NoError

\* the first error of a sequence of checks made in order
FirstError(checks) ==
  LET failed == {i \in 1..Len(checks) : checks[i] # NoError}
  IN  IF failed = {} THEN NoError
      ELSE checks[CHOOSE i \in failed : \A j \in failed : i <= j]

\* variant: the name is checked before the symbol
validateVaultConfigNameFirst(config) ==
  FirstError(<<validateRate(config.rate).error,
               validateRateDecimals(config.rateDecimals),
               validateStringLength(config.name, 1, 256, "Name"),
               validateStringLength(config.symbol, 1, 32, "Symbol"),
               validateStringLength(config.description, 1, 1000,
                                    "Description"),
               validateCoinType(config.inputCoinType),
               validateCoinType(config.outputCoinType),
               IF config.iconUrl.present /\ config.iconUrl.value # <<>>
               THEN validateUrl(config.iconUrl.value) ELSE NoError>>)

validateVaultConfig(config) ==
  FirstError(<<validateRate(config.rate).error,
               validateRateDecimals(config.rateDecimals),
               validateStringLength(config.symbol, 1, 32, "Symbol"),
               validateStringLength(config.name, 1, 256, "Name"),
               validateStringLength(config.description, 1, 1000,
                                    "Description"),
               validateCoinType(config.inputCoinType),
               validateCoinType(config.outputCoinType),
               IF config.iconUrl.present /\ config.iconUrl.value # <<>>
               THEN validateUrl(config.iconUrl.value) ELSE NoError>>)

\* ------------------------------------------------------------------------
\* The Transaction of the Sui library, as far as the builders drive it.
\* A transaction is [inputs, commands]; an argument refers to an input, to
\* the gas coin, or to the first result of the command at a position.
\* ------------------------------------------------------------------------

NewTransaction == [inputs |-> <<>>, commands |-> <<>>]

Arg(kind, index) == [kind |-> kind, index |-> index]

\* the value of an expression that yields nothing
Void == Arg("undefined", 0)

\* normalizeSuiAddress(value): lower case, without 0x, padded to 64 digits
normalizeSuiAddress(value) ==
  LET lower == toLowerCase(value)
      body  == IF startsWith(lower, <<"0", "x">>) THEN slice(lower, 2) ELSE lower
  IN  <<"0", "x">> \o padStart(body, 64, "0")

\* tx.object(id): the input of that object, registered once per id; no
\* check is made of the id before the transaction is built
txObject(t, id) ==
  LET n     == normalizeSuiAddress(id)
      known == {i \in 1..Len(t.inputs) :
                  t.inputs[i].kind = "Object" /\ t.inputs[i].value = n}
  IN  IF known # {}
      THEN [tx |-> t, arg |-> Arg("Input", CHOOSE i \in known : TRUE)]
      ELSE [tx  |-> [t EXCEPT !.inputs =
                       Append(@, [kind |-> "Object", type |-> "", value |-> n])],
            arg |-> Arg("Input", Len(t.inputs) + 1)]

\* variant: a handle is registered as one more object input
objectOrHandleRegistered(t, x) ==
  IF x.kind = "string" THEN txObject(t, x.value)
  ELSE [tx  |-> [t EXCEPT !.inputs =
                   Append(@, [kind |-> "Object", type |-> "", value |-> <<>>])],
        arg |-> Arg("Input", Len(t.inputs) + 1)]

\* typeof x === 'string' ? tx.object(x) : x
objectOrHandle(t, x) ==
  IF x.kind = "string" THEN txObject(t, x.value) ELSE [tx |-> t, arg |-> x]

\* tx.pure.<type>(value) for a value the serializer accepts
txPure(t, type, value) ==
  [tx    |-> [t EXCEPT !.inputs =
                Append(@, [kind |-> "Pure", type |-> type, value |-> value])],
   arg   |-> Arg("Input", Len(t.inputs) + 1),
   error |-> NoError]

Rejected(t, kind, at) == [tx |-> t, arg |-> Void, error |-> Err(kind, "", at)]

\* tx.pure.u64(text): BigInt(text) must parse and lie in 0..2^64-1
pureU64(t, text) ==
  LET parsed == BigIntOfString(text)
  IN  IF ~parsed.ok THEN Rejected(t, "SyntaxError", "pure.u64")
      ELSE IF parsed.value.neg \/ NatCmp(parsed.value.mag, MAX_U64.mag) > 0
      THEN Rejected(t, "TypeError", "pure.u64")
      ELSE txPure(t, "u64", parsed.value)

\* tx.pure.u8(n): n must lie in 0..255
pureU8(t, n) ==
  IF n < 0 \/ n > 255 THEN Rejected(t, "TypeError", "pure.u8")
  ELSE txPure(t, "u8", n)

\* tx.pure.address(text): the text must not be empty and must normalize to
\* 0x and 64 hex digits
pureAddress(t, text) ==
  LET n   == normalizeSuiAddress(text)
      hex == slice(n, 2)
  IN  IF text # <<>> /\ Len(hex) = 64 /\ \A i \in 1..Len(hex) : IsHexChar(hex[i])
      THEN txPure(t, "address", n)
      ELSE Rejected(t, "Error", "pure.address")

\* a moveCall whose result handle counts the commands from zero
moveCallFromZero(t, target, typeArguments, arguments) ==
  [tx  |-> [t EXCEPT !.commands =
              Append(@, [kind          |-> "MoveCall",
                         target        |-> target,
                         typeArguments |-> typeArguments,
                         arguments     |-> arguments])],
   arg |-> Arg("NestedResult", Len(t.commands))]

\* variant: a call to a target the transaction already holds is not
\* appended again; the handle of the earlier call is returned
moveCallOncePerTarget(t, target, typeArguments, arguments) ==
  LET held == {k \in 1..Len(t.commands) :
                 /\ t.commands[k].kind = "MoveCall"
                 /\ t.commands[k].target = target}
  IN  IF held # {}
      THEN [tx |-> t, arg |-> Arg("NestedResult", CHOOSE k \in held : TRUE)]
      ELSE [tx  |-> [t EXCEPT !.commands =
                       Append(@, [kind          |-> "MoveCall",
                                  target        |-> target,
                                  typeArguments |-> typeArguments,
                                  arguments     |-> arguments])],
            arg |-> Arg("NestedResult", Len(t.commands) + 1)]

\* variant: the call is put in front of the calls the transaction holds
moveCallInFront(t, target, typeArguments, arguments) ==
  [tx  |-> [t EXCEPT !.commands =
              <<[kind          |-> "MoveCall",
                 target        |-> target,
                 typeArguments |-> typeArguments,
                 arguments     |-> arguments]>> \o @],
   arg |-> Arg("NestedResult", 1)]

\* tx.moveCall({target, typeArguments, arguments}): appends the call; its
\* first result is the handle the builders destructure
moveCall(t, target, typeArguments, arguments) ==
  [tx  |-> [t EXCEPT !.commands =
              Append(@, [kind          |-> "MoveCall",
                         target        |-> target,
                         typeArguments |-> typeArguments,
                         arguments     |-> arguments])],
   arg |-> Arg("NestedResult", Len(t.commands) + 1)]

\* variant: the transfer is put before the latest call of the transaction
transferObjectsBeforeLatest(t, objects, address) ==
  LET n == Len(t.commands)
      transfer == [kind    |-> "TransferObjects",
                   objects |-> objects,
                   address |-> address]
  IN  [t EXCEPT !.commands =
         IF n = 0 THEN <<transfer>>
         ELSE SubSeq(@, 1, n - 1) \o <<transfer, @[n]>>]

\* tx.transferObjects(objects, address)
transferObjects(t, objects, address) ==
  [t EXCEPT !.commands =
     Append(@, [kind    |-> "TransferObjects",
                objects |-> objects,
                address |-> address])]

\* ------------------------------------------------------------------------
\* Call builders (utils/transactions.ts).  Each yields the transaction as
\* it leaves it, the error thrown (NoError if none) and the handle returned.
\* ------------------------------------------------------------------------

VAULT_MODULES == [VAULT |-> <<"v", "a", "u", "l", "t">>]

VAULT_FUNCTIONS ==
  [CREATE_VAULT |-> <<"c", "r", "e", "a", "t", "e", "_", "v", "a", "u", "l",
                      "t">>,
   MINT         |-> <<"m", "i", "n", "t">>,
   REDEEM       |-> <<"r", "e", "d", "e", "e", "m">>,
   DEPOSIT      |-> <<"d", "e", "p", "o", "s", "i", "t">>,
   WITHDRAW     |-> <<"w", "i", "t", "h", "d", "r", "a", "w">>,
   SET_RATE     |-> <<"s", "e", "t", "_", "r", "a", "t", "e">>]

\* a target that leaves the module out
VaultTargetWithoutModule(packageId, fn) == packageId \o <<":", ":">> \o fn

\* `${packageId}::${VAULT_MODULES.VAULT}::${fn}`
VaultTarget(packageId, fn) ==
  packageId \o <<":", ":">> \o VAULT_MODULES.VAULT \o <<":", ":">> \o fn

Built(t, error, result) == [tx |-> t, error |-> error, result |-> result]

buildCreateVaultTx(t, packageId, params) ==
  LET symbolBytes      == TextEncode(params.symbol)
      nameBytes        == TextEncode(params.name)
      descriptionBytes == TextEncode(params.description)
      urlType == <<"0", "x", "2", ":", ":", "u", "r", "l", ":", ":", "U",
                   "r", "l">>
      \* the Option<Url> built from the optional icon string
      option ==
        IF params.iconUrl.present /\ Len(params.iconUrl.value) > 0
        THEN LET text   == txPure(t, "string", params.iconUrl.value)
                 urlVal == moveCall(text.tx, <<"0", "x", "2", ":", ":", "u",
                                               "r", "l", ":", ":", "n", "e",
                                               "w", "_", "u", "n", "s", "a",
                                               "f", "e">>,
                                    <<>>, <<text.arg>>)
             IN  moveCall(urlVal.tx, <<"0", "x", "1", ":", ":", "o", "p",
                                       "t", "i", "o", "n", ":", ":", "s",
                                       "o", "m", "e">>,
                          <<urlType>>, <<urlVal.arg>>)
        ELSE moveCall(t, <<"0", "x", "1", ":", ":", "o", "p", "t", "i", "o",
                           "n", ":", ":", "n", "o", "n", "e">>, <<urlType>>, <<>>)
      \* the arguments of the main call, evaluated left to right
      rate     == pureU64(option.tx, toStringOf(params.rate))
      treasury == objectOrHandle(rate.tx, params.outputCoinTreasury)
      decimals == pureU8(treasury.tx, params.rateDecimals)
      symbol   == txPure(decimals.tx, "vector<u8>", symbolBytes)
      name     == txPure(symbol.tx, "vector<u8>", nameBytes)
      descr    == txPure(name.tx, "vector<u8>", descriptionBytes)
      call     == moveCall(descr.tx,
                    VaultTarget(packageId, VAULT_FUNCTIONS.CREATE_VAULT),
                    <<params.inputCoinType, params.outputCoinType>>,
                    <<rate.arg, treasury.arg, decimals.arg, symbol.arg,
                      name.arg, descr.arg, option.arg>>)
  IN  IF rate.error # NoError THEN Built(rate.tx, rate.error, Void)
      ELSE IF decimals.error # NoError THEN Built(decimals.tx, decimals.error, Void)
      ELSE Built(call.tx, NoError, Void)

buildMintTx(t, packageId, params) ==
  LET vault    == txObject(t, params.vaultId)
      metadata == txObject(vault.tx, params.metadataId)
      coin     == objectOrHandle(metadata.tx, params.inputCoin)
      minted   == moveCall(coin.tx,
                    VaultTarget(packageId, VAULT_FUNCTIONS.MINT),
                    <<params.inputCoinType, params.outputCoinType>>,
                    <<vault.arg, metadata.arg, coin.arg>>)
  IN  Built(minted.tx, NoError, minted.arg)

buildRedeemTx(t, packageId, params) ==
  LET vault    == txObject(t, params.vaultId)
      metadata == txObject(vault.tx, params.metadataId)
      coin     == objectOrHandle(metadata.tx, params.outputCoin)
      redeemed == moveCall(coin.tx,
                    VaultTarget(packageId, VAULT_FUNCTIONS.REDEEM),
                    <<params.inputCoinType, params.outputCoinType>>,
                    <<vault.arg, metadata.arg, coin.arg>>)
  IN  Built(redeemed.tx, NoError, redeemed.arg)

buildDepositTx(t, packageId, params) ==
  LET ownerCap == objectOrHandle(t, params.ownerCap)
      vault    == txObject(ownerCap.tx, params.vaultId)
      coin     == objectOrHandle(vault.tx, params.inputCoin)
      call     == moveCall(coin.tx,
                    VaultTarget(packageId, VAULT_FUNCTIONS.DEPOSIT),
                    <<params.inputCoinType, params.outputCoinType>>,
                    <<ownerCap.arg, vault.arg, coin.arg>>)
  IN  Built(call.tx, NoError, Void)

buildWithdrawTx(t, packageId, params) ==
  LET ownerCap  == objectOrHandle(t, params.ownerCap)
      vault     == txObject(ownerCap.tx, params.vaultId)
      amount    == pureU64(vault.tx, toStringOf(params.amount))
      withdrawn == moveCall(amount.tx,
                     VaultTarget(packageId, VAULT_FUNCTIONS.WITHDRAW),
                     <<params.inputCoinType, params.outputCoinType>>,
                     <<ownerCap.arg, vault.arg, amount.arg>>)
  IN  IF amount.error # NoError THEN Built(amount.tx, amount.error, Void)
      ELSE Built(withdrawn.tx, NoError, withdrawn.arg)

buildSetRateTx(t, packageId, params) ==
  LET ownerCap == objectOrHandle(t, params.ownerCap)
      vault    == txObject(ownerCap.tx, params.vaultId)
      newRate  == pureU64(vault.tx, toStringOf(params.newRate))
      call     == moveCall(newRate.tx,
                    VaultTarget(packageId, VAULT_FUNCTIONS.SET_RATE),
                    <<params.inputCoinType, params.outputCoinType>>,
                    <<ownerCap.arg, vault.arg, newRate.arg>>)
  IN  IF newRate.error # NoError THEN Built(newRate.tx, newRate.error, Void)
      ELSE Built(call.tx, NoError, Void)

\* ------------------------------------------------------------------------
\* RivaClient facade (client/VaultClient.ts).  An operation is a function
\* of the transaction it is given, its parameters and, where it awaits
\* getObject, of the responses; it yields what the builders yield.
\* ------------------------------------------------------------------------

\* config.network.packageId of the client
PackageId == <<"0", "x">> \o [i \in 1..64 |-> "9"]

\* /^0x[0-9a-fA-F]{64}$/
isObjectIdString(value) ==
  /\ Len(value) = 66
  /\ startsWith(value, <<"0", "x">>)
  /\ \A i \in 3..66 : IsHexChar(value[i])

\* variant: the check fails with a plain Error
requireObjectIdPlainError(coin) ==
  IF coin.kind = "string" /\ ~isObjectIdString(coin.value)
  THEN Err("Error", "", "isObjectIdString")
  ELSE NoError

\* the check of a coin parameter given as a string
requireObjectId(coin) ==
  IF coin.kind = "string" /\ ~isObjectIdString(coin.value)
  THEN Err("VaultError", "INVALID_PARAMETERS", "isObjectIdString")
  ELSE NoError

\* fullType?.match(/<(.+),\s*(.+)>/) on the type of a getObject response:
\* the first "<", the last "," that leaves a ">" two places on, the last ">"
matchTypeArgs(response) ==
  LET s      == response.type.value
      opens  == {i \in 1..Len(s) : s[i] = "<"}
      open   == CHOOSE i \in opens : \A j \in opens : i <= j
      close  == Max({i \in 1..Len(s) : s[i] = ">"})
      commas == {i \in (open + 2)..(close - 2) : s[i] = ","}
      comma  == Max(commas)
      blanks == Max({n \in 0..(close - comma - 2) :
                       \A k \in 1..n : s[comma + k] = " "})
      found  == /\ response.type.present
                /\ opens # {}
                /\ \E i \in 1..Len(s) : s[i] = ">"
                /\ commas # {}
  IN  IF found
      THEN [found |-> TRUE,
            first |-> SubSeq(s, open + 1, comma - 1),
            second |-> SubSeq(s, comma + blanks + 1, close - 1)]
      ELSE [found |-> FALSE, first |-> <<>>, second |-> <<>>]

inferInputTypeFromVault(response) ==
  IF matchTypeArgs(response).found THEN matchTypeArgs(response).first
  ELSE <<"0", "x", "2", ":", ":", "s", "u", "i", ":", ":", "S", "U", "I">>

inferOutputTypeFromVault(response) ==
  IF matchTypeArgs(response).found THEN matchTypeArgs(response).second
  ELSE <<"0", "x", "2", ":", ":", "s", "u", "i", ":", ":", "S", "U", "I">>

\* transaction.transferObjects([handle], transaction.pure.address(recipient))
\* after a build: the address is serialized before the transfer is appended
thenTransfer(built, recipient) ==
  LET address == pureAddress(built.tx, recipient)
  IN  IF built.error # NoError THEN built
      ELSE IF address.error # NoError THEN Built(address.tx, address.error, Void)
      ELSE Built(transferObjects(address.tx, <<built.result>>, address.arg),
                 NoError, Void)

createVault(t, config, outputCoinTreasury) ==
  LET invalid == validateVaultConfig(config)
  IN  IF invalid # NoError THEN Built(t, invalid, Void)
      ELSE buildCreateVaultTx(t, PackageId,
             [rate               |-> config.rate,
              outputCoinTreasury |-> outputCoinTreasury,
              rateDecimals       |-> config.rateDecimals,
              symbol             |-> config.symbol,
              name               |-> config.name,
              description        |-> config.description,
              iconUrl            |-> IF config.iconUrl.present
                                        /\ config.iconUrl.value # <<>>
                                     THEN config.iconUrl
                                     ELSE [present |-> FALSE, value |-> <<>>],
              inputCoinType      |-> config.inputCoinType,
              outputCoinType     |-> config.outputCoinType])

mint(t, params) ==
  LET invalid == FirstError(<<validateCoinType(params.inputCoinType),
                              validateCoinType(params.outputCoinType),
                              requireObjectId(params.inputCoin)>>)
  IN  IF invalid # NoError THEN Built(t, invalid, Void)
      ELSE buildMintTx(t, PackageId,
             [vaultId        |-> params.vaultId,
              metadataId     |-> params.metadataId,
              inputCoin      |-> params.inputCoin,
              inputCoinType  |-> params.inputCoinType,
              outputCoinType |-> params.outputCoinType])

mint_and_transfer(t, params) ==
  LET invalid == FirstError(<<validateCoinType(params.inputCoinType),
                              validateCoinType(params.outputCoinType),
                              requireObjectId(params.inputCoin)>>)
  IN  IF invalid # NoError THEN Built(t, invalid, Void)
      ELSE thenTransfer(buildMintTx(t, PackageId,
                          [vaultId        |-> params.vaultId,
                           metadataId     |-> params.metadataId,
                           inputCoin      |-> params.inputCoin,
                           inputCoinType  |-> params.inputCoinType,
                           outputCoinType |-> params.outputCoinType]),
                        params.recipient)

redeem(t, params) ==
  LET invalid == FirstError(<<validateCoinType(params.inputCoinType),
                              validateCoinType(params.outputCoinType)>>)
  IN  IF invalid # NoError THEN Built(t, invalid, Void)
      ELSE buildRedeemTx(t, PackageId,
             [vaultId        |-> params.vaultId,
              metadataId     |-> params.metadataId,
              outputCoin     |-> params.outputCoin,
              inputCoinType  |-> params.inputCoinType,
              outputCoinType |-> params.outputCoinType])

redeem_and_transfer(t, params) ==
  LET invalid == FirstError(<<validateCoinType(params.inputCoinType),
                              validateCoinType(params.outputCoinType),
                              requireObjectId(params.outputCoin)>>)
  IN  IF invalid # NoError THEN Built(t, invalid, Void)
      ELSE thenTransfer(buildRedeemTx(t, PackageId,
                          [vaultId        |-> params.vaultId,
                           metadataId     |-> params.metadataId,
                           outputCoin     |-> params.outputCoin,
                           inputCoinType  |-> params.inputCoinType,
                           outputCoinType |-> params.outputCoinType]),
                        params.recipient)

\* what an owner operation throws before its first await
ownerChecks(op, params) ==
  IF op = "deposit"
  THEN FirstError(<<validateCoinType(params.inputCoinType),
                    requireObjectId(params.inputCoin)>>)
  ELSE IF op = "updateRate" THEN validateRate(params.newRate).error
  ELSE FirstError(<<validateAmount(params.amount).error,
                    validateCoinType(params.inputCoinType)>>)

\* a rejected getObject query is passed on by the operation that awaits it
deposit(t, params, response) ==
  IF ownerChecks("deposit", params) # NoError
  THEN Built(t, ownerChecks("deposit", params), Void)
  ELSE IF ~response.ok THEN Built(t, Err("Error", "", "getObject"), Void)
  ELSE buildDepositTx(t, PackageId,
         [ownerCap       |-> params.ownerCap,
          vaultId        |-> params.vaultId,
          inputCoin      |-> params.inputCoin,
          inputCoinType  |-> params.inputCoinType,
          outputCoinType |-> inferOutputTypeFromVault(response)])

withdraw(t, params, response) ==
  IF ownerChecks("withdraw", params) # NoError
  THEN Built(t, ownerChecks("withdraw", params), Void)
  ELSE IF ~response.ok THEN Built(t, Err("Error", "", "getObject"), Void)
  ELSE buildWithdrawTx(t, PackageId,
         [ownerCap       |-> params.ownerCap,
          vaultId        |-> params.vaultId,
          amount         |-> [type |-> "bigint",
                              big  |-> validateAmount(params.amount).value],
          inputCoinType  |-> params.inputCoinType,
          outputCoinType |-> inferOutputTypeFromVault(response)])

withdraw_and_transfer(t, params, response) ==
  IF ownerChecks("withdraw_and_transfer", params) # NoError
  THEN Built(t, ownerChecks("withdraw_and_transfer", params), Void)
  ELSE IF ~response.ok THEN Built(t, Err("Error", "", "getObject"), Void)
  ELSE thenTransfer(buildWithdrawTx(t, PackageId,
                      [ownerCap       |-> params.ownerCap,
                       vaultId        |-> params.vaultId,
                       amount         |-> [type |-> "bigint",
                                           big  |-> validateAmount(params.amount).value],
                       inputCoinType  |-> params.inputCoinType,
                       outputCoinType |-> inferOutputTypeFromVault(response)]),
                    params.recipient)

\* updateRate awaits the input type, then the output type
updateRate(t, params, first, second) ==
  IF ownerChecks("updateRate", params) # NoError
  THEN Built(t, ownerChecks("updateRate", params), Void)
  ELSE IF ~first.ok \/ ~second.ok THEN Built(t, Err("Error", "", "getObject"), Void)
  ELSE buildSetRateTx(t, PackageId,
         [ownerCap       |-> params.ownerCap,
          vaultId        |-> params.vaultId,
          newRate        |-> [type |-> "bigint",
                              big  |-> validateRate(params.newRate).value],
          inputCoinType  |-> inferInputTypeFromVault(first),
          outputCoinType |-> inferOutputTypeFromVault(second)])

\* ------------------------------------------------------------------------
\* The coin registry and retry()

SUI_COIN_TYPE == <<"0", "x", "2", ":", ":", "s", "u", "i", ":", ":", "S",
                   "U", "I">>

STABLECOIN_TYPES ==
  [USDC |-> <<"0", "x", "d", "b", "a", "3", "4", "6", "7", "2", "e", "3",
              "0", "c", "b", "0", "6", "5", "b", "1", "f", "9", "3", "e",
              "3", "a", "b", "5", "5", "3", "1", "8", "7", "6", "8", "f",
              "d", "6", "f", "e", "f", "6", "6", "c", "1", "5", "9", "4",
              "2", "c", "9", "f", "7", "c", "b", "8", "4", "6", "e", "2",
              "f", "9", "0", "0", "e", "7", ":", ":", "u", "s", "d", "c",
              ":", ":", "U", "S", "D", "C">>,
   USDT |-> <<"0", "x", "3", "7", "5", "f", "7", "0", "c", "f", "2", "a",
              "e", "4", "c", "0", "0", "b", "f", "3", "7", "1", "1", "7",
              "d", "0", "c", "8", "5", "a", "2", "c", "7", "1", "5", "4",
              "5", "e", "6", "e", "e", "0", "5", "c", "4", "a", "5", "c",
              "7", "d", "2", "8", "2", "c", "d", "6", "6", "a", "4", "5",
              "0", "4", "b", "0", "6", "8", ":", ":", "u", "s", "d", "t",
              ":", ":", "U", "S", "D", "T">>]

\* the metadata of the module's three coins; of the optional fields
\* isStablecoin is kept
InitialRegistry ==
  (SUI_COIN_TYPE :> [type |-> SUI_COIN_TYPE, symbol |-> <<"S", "U", "I">>,
                     name |-> <<"S", "u", "i">>, decimals |-> 9,
                     isStablecoin |-> FALSE])
  @@ (STABLECOIN_TYPES.USDC :>
        [type |-> STABLECOIN_TYPES.USDC, symbol |-> <<"U", "S", "D", "C">>,
         name |-> <<"U", "S", "D", " ", "C", "o", "i", "n">>, decimals |-> 6, isStablecoin |-> TRUE])
  @@ (STABLECOIN_TYPES.USDT :>
        [type |-> STABLECOIN_TYPES.USDT, symbol |-> <<"U", "S", "D", "T">>,
         name |-> <<"T", "e", "t", "h", "e", "r", " ", "U", "S", "D">>, decimals |-> 6, isStablecoin |-> TRUE])

\* COIN_REGISTRY[coinType]: undefined for a type without an entry
getCoinMetadata(registry, coinType) ==
  IF coinType \in DOMAIN registry THEN registry[coinType] ELSE Void

\* variant: a number of decimals is returned as it is registered
getCoinDecimalsAsRegistered(registry, coinType) ==
  IF getCoinMetadata(registry, coinType) = Void THEN 9
  ELSE getCoinMetadata(registry, coinType).decimals

\* metadata?.decimals || 9: the decimals 0 are falsy
getCoinDecimals(registry, coinType) ==
  LET metadata == getCoinMetadata(registry, coinType)
  IN  IF metadata = Void THEN 9
      ELSE IF metadata.decimals = 0 THEN 9
      ELSE metadata.decimals

\* COIN_REGISTRY[metadata.type] = metadata
registerCoin(registry, metadata) ==
  [t \in DOMAIN registry \cup {metadata.type} |->
     IF t = metadata.type THEN metadata ELSE registry[t]]

\* for (const coin of coins) registerCoin(coin)
registerCoins(registry, coins) ==
  LET after[i \in 0..Len(coins)] ==
        IF i = 0 THEN registry ELSE registerCoin(after[i - 1], coins[i])
  IN  after[Len(coins)]

\* the longest batch given to registerCoins
MaxCoins == 2

\* the metadata registered: of SUI, which has an entry, and of a coin that
\* has none, each with 0 and with 6 decimals
Metadata ==
  {[type |-> t, symbol |-> <<"C", "O", "I", "N">>, name |-> <<"C", "o", "i",
                                                              "n">>, decimals |-> d,
    isStablecoin |-> FALSE] :
     t \in {SUI_COIN_TYPE, <<"0", "x", "a", ":", ":", "c", "o", "i", "n",
                             ":", ":", "C", "O", "I", "N">>}, d \in {0, 6}}

\* the types looked up: two of the module's coins, the coin above and a
\* type that is never registered
LookedUp ==
  {SUI_COIN_TYPE, STABLECOIN_TYPES.USDC, <<"0", "x", "a", ":", ":", "c", "o",
                                           "i", "n", ":", ":", "C", "O", "I",
                                           "N">>,
   <<"0", "x", "b", ":", ":", "n", "o", "n", "e", ":", ":", "N", "O", "N",
     "E">>}

\* a call on the registry returns; last holds the registry as it found
\* it.  The registry is never empty: no entry is ever deleted
RegistryCall(op, params, registry, result) ==
  /\ COIN_REGISTRY' = registry
  /\ last' = [op |-> op, params |-> params, responses |-> <<>>,
              before |-> COIN_REGISTRY, error |-> NoError, result |-> result]
  /\ UNCHANGED <<mathVars, tx, pending, started, retrying>>

RegisterCoin ==
  /\ DOMAIN COIN_REGISTRY # {}
  /\ \E metadata \in Metadata :
       RegistryCall("registerCoin", metadata,
                    registerCoin(COIN_REGISTRY, metadata), Void)

RegisterCoins ==
  /\ DOMAIN COIN_REGISTRY # {}
  /\ \E n \in 0..MaxCoins : \E coins \in [1..n -> Metadata] :
       RegistryCall("registerCoins", coins,
                    registerCoins(COIN_REGISTRY, coins), Void)

GetCoinMetadata ==
  /\ DOMAIN COIN_REGISTRY # {}
  /\ \E coinType \in LookedUp :
       RegistryCall("getCoinMetadata", coinType, COIN_REGISTRY,
                    getCoinMetadata(COIN_REGISTRY, coinType))

GetCoinDecimals ==
  /\ DOMAIN COIN_REGISTRY # {}
  /\ \E coinType \in LookedUp :
       RegistryCall("getCoinDecimals", coinType, COIN_REGISTRY,
                    getCoinDecimals(COIN_REGISTRY, coinType))

\* ------------------------------------------------------------------------
\* retry(fn, options): the loop of an async function.  It is suspended
\* while fn is in flight and while it sleeps; the k-th invocation of fn
\* resolves with the value k or rejects with the error k.

\* the most attempts a call is given
MaxAttempts == 3

\* no retry() call is in progress
NotRetrying ==
  [pc |-> "idle", maxAttempts |-> 0, baseDelay |-> 0, maxDelay |-> 0,
   backoffMultiplier |-> 0, attempt |-> 0, lastError |-> 0, calls |-> 0,
   running |-> 0, settled |-> <<>>, delays |-> <<>>,
   outcome |-> [kind |-> "none", value |-> 0]]

UtilInit ==
  /\ COIN_REGISTRY = InitialRegistry
  /\ retrying = NotRetrying

\* the options a call is given: none, maxAttempts alone, or all four
RetryOptions ==
  LET given(v) == [given |-> TRUE, value |-> v]
      none     == [given |-> FALSE, value |-> 0]
  IN  {[maxAttempts |-> none, baseDelay |-> none, maxDelay |-> none,
        backoffMultiplier |-> none]}
      \cup {[maxAttempts |-> given(n), baseDelay |-> none, maxDelay |-> none,
             backoffMultiplier |-> none] : n \in 0..MaxAttempts}
      \cup {[maxAttempts |-> given(n), baseDelay |-> given(b),
             maxDelay |-> given(x), backoffMultiplier |-> given(m)] :
              n \in 0..MaxAttempts, b \in {0, 1000}, x \in {1500, 10000},
              m \in {1, 2}}

\* Math.pow(b, e) of naturals
Pow(b, e) ==
  LET power[i \in 0..e] == IF i = 0 THEN 1 ELSE b * power[i - 1]
  IN  power[e]

\* variant: the delay is not capped
retryDelayUncapped(r) == r.baseDelay * Pow(r.backoffMultiplier, r.attempt - 1)

\* Math.min(baseDelay * Math.pow(backoffMultiplier, attempt - 1), maxDelay)
retryDelay(r) ==
  LET delay == r.baseDelay * Pow(r.backoffMultiplier, r.attempt - 1)
  IN  IF delay < r.maxDelay THEN delay ELSE r.maxDelay

\* the loop is entered with attempt: fn is invoked if attempt <=
\* maxAttempts, if not lastError is thrown
Enter(r, attempt) ==
  IF attempt <= r.maxAttempts
  THEN [r EXCEPT !.pc = "calling", !.attempt = attempt,
                 !.calls = @ + 1, !.running = @ + 1]
  ELSE [r EXCEPT !.pc = "done", !.attempt = attempt,
                 !.outcome = [kind |-> "rejected", value |-> r.lastError]]

\* retry(fn, options) is called: the options are destructured with their
\* defaults and the loop is entered
Retry ==
  /\ retrying.pc = "idle"
  /\ \E options \in RetryOptions :
       LET or(o, default) == IF o.given THEN o.value ELSE default
       IN  retrying' =
             Enter([NotRetrying EXCEPT
                      !.maxAttempts = or(options.maxAttempts, 3),
                      !.baseDelay = or(options.baseDelay, 1000),
                      !.maxDelay = or(options.maxDelay, 10000),
                      !.backoffMultiplier = or(options.backoffMultiplier, 2)],
                   1)
  /\ UNCHANGED <<mathVars, clientVars, COIN_REGISTRY>>

\* the invocation of fn in flight resolves: return await fn()
FnResolves ==
  /\ retrying.pc = "calling"
  /\ retrying' = [retrying EXCEPT
                    !.pc = "done", !.running = @ - 1,
                    !.settled = Append(@, "resolved"),
                    !.outcome = [kind |-> "resolved",
                                 value |-> retrying.calls]]
  /\ UNCHANGED <<mathVars, clientVars, COIN_REGISTRY>>

\* the invocation of fn in flight rejects: the error is kept; after the
\* last attempt the loop is left and the error thrown, before it the
\* function sleeps
FnRejects ==
  /\ retrying.pc = "calling"
  /\ LET caught == [retrying EXCEPT !.running = @ - 1,
                                    !.settled = Append(@, "rejected"),
                                    !.lastError = retrying.calls]
     IN  retrying' =
           IF caught.attempt = caught.maxAttempts
           THEN [caught EXCEPT !.pc = "done",
                               !.outcome = [kind |-> "rejected",
                                            value |-> caught.lastError]]
           ELSE [caught EXCEPT !.pc = "sleeping",
                               !.delays = Append(@, retryDelay(caught))]
  /\ UNCHANGED <<mathVars, clientVars, COIN_REGISTRY>>

\* the timer of sleep(delay) fires: attempt++ and the loop is entered again
Wake ==
  /\ retrying.pc = "sleeping"
  /\ retrying' = Enter(retrying, retrying.attempt + 1)
  /\ UNCHANGED <<mathVars, clientVars, COIN_REGISTRY>>

\* ------------------------------------------------------------------------
\* The facade driven by a caller: parameters, operations, responses
\* ------------------------------------------------------------------------

\* the number of operations a caller invokes on the transaction; the last
\* of them draws its parameters and the responses to its queries from the
\* full sets, the ones before it from the plain values with which they
\* succeed
MaxOps == 2

\* a string where an object id or a handle may be given
Str(s) == [kind |-> "string", value |-> s]

\* a string where a string or a bigint may be given
AsString(s) == [type |-> "string", str |-> s]

Sample ==
  LET objectId(c) == <<"0", "x">> \o [i \in 1..64 |-> c]
  IN  [sui       |-> <<"0", "x", "2", ":", ":", "s", "u", "i", ":", ":", "S",
                       "U", "I">>,
       usdc      |-> <<"0", "x", "a", ":", ":", "u", "s", "d", "c", ":", ":",
                       "U", "S", "D", "C">>,
       noAddress |-> <<"s", "u", "i", ":", ":", "S", "U", "I">>,
       vault     |-> objectId("a"),
       metadata  |-> objectId("b"),
       coin      |-> objectId("C"),
       ownerCap  |-> objectId("d"),
       treasury  |-> objectId("e"),
       amount    |-> <<"1", "0", "0", "0">>,
       recipient |-> <<"0", "x", "f", "0", "0", "d">>,
       noHex     |-> <<"b", "o", "b">>,
       icon      |-> <<"h", "t", "t", "p", "s", ":", "/", "/", "x", ".", "i",
                       "o", "/", "i", ".", "p", "n", "g">>,
       noUrl     |-> <<"n", "o", " ", "s", "c", "h", "e", "m", "e">>,
       vaultType |-> <<"0", "x", "9", ":", ":", "v", "a", "u", "l", "t", ":",
                       ":", "V", "a", "u", "l", "t", "<", "0", "x", "2", ":",
                       ":", "s", "u", "i", ":", ":", "S", "U", "I", ",", " ",
                       "0", "x", "a", ":", ":", "u", "s", "d", "c", ":", ":",
                       "U", "S", "D", "C", ">">>,
       \* 2^64, one more than a u64 holds
       tooLarge  |-> [type |-> "bigint",
                      big  |-> Big(FALSE, NatAdd(MAX_U64.mag, <<1>>))]]

\* a handle of the transaction: the result of its latest command, or the
\* gas coin while there is none
Handle(t) ==
  IF t.commands = <<>> THEN Arg("GasCoin", 0)
  ELSE Arg("NestedResult", Len(t.commands))

\* vault configurations: the plain one and, in full, the ones that differ
\* from it in the icon URL, the rate, the decimals, the texts, a coin type
VaultConfigs(full) ==
  LET base == [rate           |-> AsString(<<"2", "0", "0", "0", "0", "0",
                                             "0", "0", "0", "0">>),
               rateDecimals   |-> 9,
               symbol         |-> <<118, 85, 83, 68>>,
               name           |-> <<86, 97, 117, 108, 116>>,
               description    |-> <<100, 101, 109, 111>>,
               inputCoinType  |-> Sample.sui,
               outputCoinType |-> Sample.usdc,
               iconUrl        |-> [present |-> FALSE, value |-> <<>>]]
      icons == {[present |-> FALSE, value |-> <<>>],
                [present |-> TRUE, value |-> <<>>],
                [present |-> TRUE, value |-> Sample.icon],
                [present |-> TRUE, value |-> Sample.noUrl]}
  IN  IF ~full THEN {base}
      ELSE {[base EXCEPT !.iconUrl = i, !.rate = r] :
              i \in icons, r \in {base.rate, Sample.tooLarge}}
           \cup {[base EXCEPT !.rate = AsString(<<"0">>)],
                 [base EXCEPT !.rateDecimals = MAX_RATE_DECIMALS + 1],
                 [base EXCEPT !.symbol = <<>>],
                 [base EXCEPT !.symbol = [i \in 1..33 |-> 86]],
                 \* texts beyond ASCII: U+20AC, U+00E9, U+1F600
                 [base EXCEPT !.symbol = <<118, 8364>>,
                              !.name = <<233, 128512>>],
                 [base EXCEPT !.outputCoinType = Sample.noAddress]}

\* the parameters of an operation on the transaction t: the plain ones and,
\* in full, also a bare amount and a handle for a coin, a handle for the
\* owner capability, a coin type without
\* address, amounts and rates outside their range, a recipient that is no
\* address, the treasury as a handle
Params(op, t, full) ==
  LET orFull(plain, more) == plain \cup (IF full THEN more ELSE {})
      coins      == orFull({Str(Sample.coin)}, {Str(Sample.amount), Handle(t)})
      outputs    == orFull({Sample.usdc}, {Sample.noAddress})
      inputs     == orFull({Sample.sui}, {Sample.noAddress})
      recipients == orFull({Sample.recipient}, {Sample.noHex})
      ownerCaps  == orFull({Str(Sample.ownerCap)}, {Handle(t)})
      \* params & { recipient }
      withRecipient(S) ==
        {[f \in DOMAIN p \cup {"recipient"} |->
            IF f = "recipient" THEN r ELSE p[f]] : p \in S, r \in recipients}
      mintParams ==
        {[vaultId        |-> Sample.vault,
          metadataId     |-> Sample.metadata,
          inputCoin      |-> c,
          inputCoinType  |-> Sample.sui,
          outputCoinType |-> o] : c \in coins, o \in outputs}
      redeemParams ==
        {[vaultId        |-> Sample.vault,
          metadataId     |-> Sample.metadata,
          outputCoin     |-> c,
          inputCoinType  |-> Sample.sui,
          outputCoinType |-> o] : c \in coins, o \in outputs}
      withdrawBase ==
        [ownerCap      |-> Str(Sample.ownerCap),
         vaultId       |-> Sample.vault,
         amount        |-> AsString(<<"1", "0", "0", "0", "0", "0", "0">>),
         inputCoinType |-> Sample.sui]
      withdrawParams ==
        orFull({withdrawBase},
               {[withdrawBase EXCEPT !.amount = AsString(<<"-", "1">>)],
                [withdrawBase EXCEPT !.amount = Sample.tooLarge],
                [withdrawBase EXCEPT !.inputCoinType = Sample.noAddress],
                [withdrawBase EXCEPT !.ownerCap = Handle(t)]})
      plainConfig == CHOOSE c \in VaultConfigs(FALSE) : TRUE
  IN  CASE op = "createVault" ->
             {[config |-> c, outputCoinTreasury |-> Str(Sample.treasury)] :
                c \in VaultConfigs(full)}
             \cup orFull({},
                  {[config |-> [plainConfig EXCEPT !.iconUrl = i],
                    outputCoinTreasury |-> Handle(t)] :
                     i \in {plainConfig.iconUrl,
                            [present |-> TRUE, value |-> Sample.icon]}})
        [] op = "mint" -> mintParams
        [] op = "mint_and_transfer" -> withRecipient(mintParams)
        [] op = "redeem" -> redeemParams
        [] op = "redeem_and_transfer" -> withRecipient(redeemParams)
        [] op = "deposit" ->
             {[ownerCap      |-> o,
               vaultId       |-> Sample.vault,
               inputCoin     |-> c,
               inputCoinType |-> i] : o \in ownerCaps, c \in coins, i \in inputs}
        [] op = "withdraw" -> withdrawParams
        [] op = "withdraw_and_transfer" -> withRecipient(withdrawParams)
        [] op = "updateRate" ->
             {[ownerCap |-> o,
               vaultId  |-> Sample.vault,
               newRate  |-> r] :
                o \in ownerCaps,
                r \in orFull({AsString(<<"2", "0", "0", "0", "0", "0", "0",
                                         "0", "0", "0">>)},
                             {AsString(<<"0">>), Sample.tooLarge})}

\* what suiClient.getObject answers: the vault object with its type and, in
\* full, an object without data and a rejection
Responses(full) ==
  {[ok |-> TRUE, type |-> [present |-> TRUE, value |-> Sample.vaultType]]}
  \cup (IF full
        THEN {[ok |-> TRUE, type |-> [present |-> FALSE, value |-> <<>>]],
              [ok |-> FALSE, type |-> [present |-> FALSE, value |-> <<>>]]}
        ELSE {})

NoOperation ==
  [op |-> "none", params |-> <<>>, responses |-> <<>>,
   before |-> NewTransaction, error |-> NoError, result |-> Void]

ClientInit ==
  /\ tx = NewTransaction
  /\ pending = {}
  /\ started = 0
  /\ last = NoOperation

Init ==
  /\ ClientInit
  /\ mathOp = "none"
  /\ mathArgs = <<Big(FALSE, <<>>), Big(FALSE, <<>>), 0>>
  /\ mathResult = NoResult
  /\ UtilInit

\* an operation settles: the transaction is as it left it, and the caller
\* sees its error or its result; before is the transaction as the step that
\* settles it found it
Settle(op, params, responses, outcome) ==
  /\ tx' = outcome.tx
  /\ last' = [op |-> op, params |-> params, responses |-> responses,
              before |-> tx, error |-> outcome.error,
              result |-> outcome.result]

\* the operation invoked now is the last one the caller invokes
Full == started + 1 = MaxOps

\* an operation without awaits runs in one step
Invoke(op, params, outcome) ==
  /\ started' = started + 1
  /\ Settle(op, params, <<>>, outcome)
  /\ UNCHANGED <<pending, mathVars, utilVars>>

\* an owner operation throws at once, or is suspended at its first query
InvokeOwner(op, params) ==
  /\ started' = started + 1
  /\ IF ownerChecks(op, params) # NoError
     THEN /\ Settle(op, params, <<>>, Built(tx, ownerChecks(op, params), Void))
          /\ UNCHANGED pending
     ELSE /\ pending' = pending \cup {[id |-> started + 1, op |-> op,
                                       params |-> params, responses |-> <<>>]}
          /\ UNCHANGED <<tx, last>>
  /\ UNCHANGED <<mathVars, utilVars>>

CreateVault ==
  /\ started < MaxOps
  /\ \E p \in Params("createVault", tx, Full) :
       Invoke("createVault", p, createVault(tx, p.config, p.outputCoinTreasury))

Mint ==
  /\ started < MaxOps
  /\ \E p \in Params("mint", tx, Full) : Invoke("mint", p, mint(tx, p))

MintAndTransfer ==
  /\ started < MaxOps
  /\ \E p \in Params("mint_and_transfer", tx, Full) :
       Invoke("mint_and_transfer", p, mint_and_transfer(tx, p))

Redeem ==
  /\ started < MaxOps
  /\ \E p \in Params("redeem", tx, Full) : Invoke("redeem", p, redeem(tx, p))

RedeemAndTransfer ==
  /\ started < MaxOps
  /\ \E p \in Params("redeem_and_transfer", tx, Full) :
       Invoke("redeem_and_transfer", p, redeem_and_transfer(tx, p))

Deposit ==
  /\ started < MaxOps
  /\ \E p \in Params("deposit", tx, Full) : InvokeOwner("deposit", p)

Withdraw ==
  /\ started < MaxOps
  /\ \E p \in Params("withdraw", tx, Full) : InvokeOwner("withdraw", p)

WithdrawAndTransfer ==
  /\ started < MaxOps
  /\ \E p \in Params("withdraw_and_transfer", tx, Full) :
       InvokeOwner("withdraw_and_transfer", p)

UpdateRate ==
  /\ started < MaxOps
  /\ \E p \in Params("updateRate", tx, Full) : InvokeOwner("updateRate", p)

\* the first query of an updateRate is answered: it goes on to its second
FirstResponse ==
  \E task \in pending : \E response \in Responses(task.id = MaxOps) :
    /\ task.op = "updateRate"
    /\ task.responses = <<>>
    /\ response.ok
    /\ pending' = (pending \ {task})
                  \cup {[task EXCEPT !.responses = <<response>>]}
    /\ UNCHANGED <<tx, started, last, mathVars, utilVars>>

\* the query a suspended operation awaits is answered and the operation runs
\* to its end
Response ==
  \E task \in pending : \E response \in Responses(task.id = MaxOps) :
    /\ task.op = "updateRate" /\ task.responses = <<>> => ~response.ok
    /\ pending' = pending \ {task}
    /\ Settle(task.op, task.params, Append(task.responses, response),
         CASE task.op = "deposit" -> deposit(tx, task.params, response)
           [] task.op = "withdraw" -> withdraw(tx, task.params, response)
           [] task.op = "withdraw_and_transfer" ->
                withdraw_and_transfer(tx, task.params, response)
           [] task.op = "updateRate" ->
                updateRate(tx, task.params,
                           IF task.responses = <<>> THEN response
                           ELSE task.responses[1],
                           response))
    /\ UNCHANGED <<started, mathVars, utilVars>>

Next ==
  \/ CreateVault
  \/ Mint
  \/ MintAndTransfer
  \/ Redeem
  \/ RedeemAndTransfer
  \/ Deposit
  \/ Withdraw
  \/ WithdrawAndTransfer
  \/ UpdateRate
  \/ FirstResponse
  \/ Response

Spec == Init /\ [][Next]_vars

\* ------------------------------------------------------------------------
\* The numeric engine applied to enumerated inputs
\* ------------------------------------------------------------------------

\* small values 0..MaxSmall, and the values MAX_U64 - MaxBelow .. MAX_U64 + 1
MaxSmall == 3
MaxBelow == 1

Str_1000000000 == <<"1", "0", "0", "0", "0", "0", "0", "0", "0", "0">>
Str_2000000000 == <<"2", "0", "0", "0", "0", "0", "0", "0", "0", "0">>

Pos(mag) == Big(FALSE, mag)

MathRates ==
  {Pos(NatOf(n)) : n \in 0..MaxSmall}
    \cup {Pos(NatOf(7)), Pos(NatOfString(Str_2000000000)),
          Pos(NatPow10(DECIMAL_PLACES)), MAX_U64, Big(TRUE, <<1>>)}

\* with every rate, the amounts on both sides of the pre-check's boundary;
\* 12912720851596686131 * 10 / 7 lies strictly between MAX_U64 and
\* MAX_U64 + 1
MathAmounts(rate) ==
  {Pos(NatOf(n)) : n \in 0..MaxSmall}
    \cup {Pos(NatOfString(Str_1000000000)),
          Pos(NatOfString(<<"1", "2", "9", "1", "2", "7", "2", "0", "8", "5",
                            "1", "5", "9", "6", "6", "8", "6", "1", "3", "1">>))}
    \cup {Pos(NatPow10(k)) :
            k \in {DECIMAL_PLACES - 1, DECIMAL_PLACES, DECIMAL_PLACES + 1}}
    \cup {Pos(NatSub(NatPow10(DECIMAL_PLACES), <<1>>))}
    \cup {Pos(NatSub(MAX_U64.mag, NatOf(n))) : n \in 0..MaxBelow}
    \cup {Pos(NatAdd(MAX_U64.mag, <<1>>)), Big(TRUE, <<1>>)}
    \cup (IF rate.neg \/ rate.mag = <<>> THEN {}
          ELSE {Pos(NatDiv(MAX_U64.mag, rate.mag)),
                Pos(NatAdd(NatDiv(MAX_U64.mag, rate.mag), <<1>>))})

MathDecimals == {0, 1, 9, MAX_RATE_DECIMALS - 1, MAX_RATE_DECIMALS}

MathInit ==
  /\ mathOp = "none"
  /\ \E r \in MathRates : \E a \in MathAmounts(r) : \E d \in MathDecimals :
       mathArgs = <<r, a, d>>
  /\ mathResult = NoResult
  /\ ClientInit
  /\ UtilInit

\* calculateOutputAmount(rate, inputValue, rateDecimals)
CallOutputAmount ==
  /\ mathOp = "none"
  /\ mathOp' = "calculateOutputAmount"
  /\ mathResult' = calculateOutputAmount(mathArgs[1], mathArgs[2], mathArgs[3])
  /\ UNCHANGED <<mathArgs, clientVars, utilVars>>

\* calculateInputAmount(rate, outputValue, rateDecimals)
CallInputAmount ==
  /\ mathOp = "none"
  /\ mathOp' = "calculateInputAmount"
  /\ mathResult' = calculateInputAmount(mathArgs[1], mathArgs[2], mathArgs[3])
  /\ UNCHANGED <<mathArgs, clientVars, utilVars>>

\* calculateExchangeRate(inputAmount, outputAmount, rateDecimals)
CallExchangeRate ==
  /\ mathOp = "none"
  /\ mathOp' = "calculateExchangeRate"
  /\ mathResult' = calculateExchangeRate(mathArgs[1], mathArgs[2], mathArgs[3])
  /\ UNCHANGED <<mathArgs, clientVars, utilVars>>

\* calculateInputAmount(rate, calculateOutputAmount(rate, a, d), d): the
\* first error thrown ends the round trip
CallRoundTrip ==
  /\ mathOp = "none"
  /\ mathOp' = "roundTrip"
  /\ LET out == calculateOutputAmount(mathArgs[1], mathArgs[2], mathArgs[3])
     IN  mathResult' = IF out.kind = "ok"
                       THEN calculateInputAmount(mathArgs[1], out.value, mathArgs[3])
                       ELSE out
  /\ UNCHANGED <<mathArgs, clientVars, utilVars>>

MathNext ==
  \/ CallOutputAmount
  \/ CallInputAmount
  \/ CallExchangeRate
  \/ CallRoundTrip

MathSpec == MathInit /\ [][MathNext]_vars

\* ------------------------------------------------------------------------
\* Numeric engine: properties
\* ------------------------------------------------------------------------

ArgRate == mathArgs[1]
ArgAmount == mathArgs[2]
ArgDecimals == mathArgs[3]

Unsigned(x) == ~x.neg
Positive(x) == ~x.neg /\ x.mag # <<>>
NatLe(a, b) == NatCmp(a, b) <= 0

IsOk(res) == res.kind = "ok"
Raised(res, code) == res.kind = "VaultError" /\ res.code = code

\* floor(MAX_U64 / m), m > 0
MaxOver(m) == NatDiv(MAX_U64.mag, m)

\* C1 (as claimed): for r >= 1, a >= 0, d in 0..18 with a <= floor(MAX_U64 / r),
\* calculateOutputAmount raises nothing and returns exactly
\* floor(r * a / 10^d), a value <= MAX_U64; calculateOutputAmount(2000000000,
\* 1000000000, 9) = 2000000000.
C1_OutputExact ==
  (/\ mathOp = "calculateOutputAmount"
   /\ Positive(ArgRate) /\ Unsigned(ArgAmount)
   /\ ArgDecimals \in 0..MAX_RATE_DECIMALS
   /\ NatLe(ArgAmount.mag, MaxOver(ArgRate.mag)))
  => /\ IsOk(mathResult)
     /\ mathResult.value
          = Pos(NatDiv(NatMul(ArgRate.mag, ArgAmount.mag), NatPow10(ArgDecimals)))
     /\ NatLe(mathResult.value.mag, MAX_U64.mag)
     /\ (/\ ArgRate = Pos(NatOfString(Str_2000000000))
         /\ ArgAmount = Pos(NatOfString(Str_1000000000))
         /\ ArgDecimals = 9)
        => mathResult.value = Pos(NatOfString(Str_2000000000))

\* C2: on unsigned inputs calculateOutputAmount raises ARITHMETIC_OVERFLOW
\* exactly when r > 0 and a > floor(MAX_U64 / r), and DIVISION_BY_ZERO exactly
\* when r = 0.
C2_OutputErrors ==
  (/\ mathOp = "calculateOutputAmount"
   /\ Unsigned(ArgRate) /\ Unsigned(ArgAmount))
  => /\ Raised(mathResult, "ARITHMETIC_OVERFLOW")
          <=> (/\ Positive(ArgRate)
               /\ ~NatLe(ArgAmount.mag, MaxOver(ArgRate.mag)))
     /\ Raised(mathResult, "DIVISION_BY_ZERO") <=> ArgRate.mag = <<>>

\* the overflow is raised one above the boundary floor(MAX_U64 / 3)
C2_Witness ==
  /\ mathOp = "calculateOutputAmount"
  /\ ArgRate = Pos(NatOf(3))
  /\ ArgAmount = Pos(NatAdd(MaxOver(NatOf(3)), <<1>>))
  /\ Raised(mathResult, "ARITHMETIC_OVERFLOW")

\* C3: for r > 0, a in [0, MAX_U64] and d in 0..18, whenever the round trip
\* calculateInputAmount(r, calculateOutputAmount(r, a, d), d) returns a value,
\* that value is <= a.
C3_RoundTripNeverGains ==
  (/\ mathOp = "roundTrip"
   /\ Positive(ArgRate) /\ Unsigned(ArgAmount)
   /\ NatLe(ArgAmount.mag, MAX_U64.mag)
   /\ IsOk(mathResult))
  => /\ Unsigned(mathResult.value)
     /\ NatLe(mathResult.value.mag, ArgAmount.mag)

\* a round trip that loses value: 3 * 1 / 10 is cut to 0
C3_Witness ==
  /\ mathOp = "roundTrip"
  /\ ArgRate = Pos(NatOf(3)) /\ ArgAmount = Pos(NatOf(1)) /\ ArgDecimals = 1
  /\ IsOk(mathResult)
  /\ mathResult.value = Pos(<<>>)

\* C4 (as claimed): for r >= 1, o >= 0, d in 0..18 calculateInputAmount returns
\* exactly floor(o * 10^d / r) when o <= floor(MAX_U64 / 10^d) and raises
\* ARITHMETIC_OVERFLOW exactly when o > floor(MAX_U64 / 10^d); it raises
\* DIVISION_BY_ZERO when r = 0 and INVALID_PARAMETERS when o < 0.
C4_InputExact ==
  mathOp = "calculateInputAmount"
  => /\ (Positive(ArgRate) /\ Unsigned(ArgAmount))
        => /\ NatLe(ArgAmount.mag, MaxOver(NatPow10(ArgDecimals)))
              => /\ IsOk(mathResult)
                 /\ mathResult.value
                      = Pos(NatDiv(NatShift(ArgAmount.mag, ArgDecimals), ArgRate.mag))
           /\ Raised(mathResult, "ARITHMETIC_OVERFLOW")
                <=> ~NatLe(ArgAmount.mag, MaxOver(NatPow10(ArgDecimals)))
     /\ ArgRate.mag = <<>> => Raised(mathResult, "DIVISION_BY_ZERO")
     /\ (Positive(ArgRate) /\ ArgAmount.neg)
        => Raised(mathResult, "INVALID_PARAMETERS")

\* C5 (as claimed): for i, o >= 0 and d in 0..18 calculateExchangeRate raises
\* DIVISION_BY_ZERO when i = 0; otherwise it returns exactly
\* floor(o * 10^d / i) when that value is <= MAX_U64 and raises
\* ARITHMETIC_OVERFLOW exactly when it exceeds MAX_U64; a returned rate is in
\* [0, MAX_U64].
C5_RateExact ==
  (/\ mathOp = "calculateExchangeRate"
   /\ Unsigned(ArgRate) /\ Unsigned(ArgAmount))
  => /\ ArgRate.mag = <<>> => Raised(mathResult, "DIVISION_BY_ZERO")
     /\ Positive(ArgRate)
        => LET v == NatDiv(NatShift(ArgAmount.mag, ArgDecimals), ArgRate.mag)
           IN  /\ NatLe(v, MAX_U64.mag)
                  => IsOk(mathResult) /\ mathResult.value = Pos(v)
               /\ Raised(mathResult, "ARITHMETIC_OVERFLOW")
                    <=> ~NatLe(v, MAX_U64.mag)
     /\ IsOk(mathResult)
        => Unsigned(mathResult.value) /\ NatLe(mathResult.value.mag, MAX_U64.mag)

\* C27: the post-check is implied by the pre-check: in calculateOutputAmount
\* and in calculateInputAmount, for unsigned inputs with rate >= 1 and
\* decimals in 0..18, whenever the multiplication pre-check passes the
\* result is <= MAX_U64, so the 'Result too large' ARITHMETIC_OVERFLOW
\* branch is never taken.
C27_PostCheckImplied ==
  (/\ mathOp \in {"calculateOutputAmount", "calculateInputAmount", "roundTrip"}
   /\ Positive(ArgRate) /\ Unsigned(ArgAmount)
   /\ ArgDecimals \in 0..MAX_RATE_DECIMALS)
  => mathResult.at # "post"

\* the pre-check passed on the largest amount it lets pass, in either
\* function
C27_Witness ==
  /\ mathOp = "calculateOutputAmount"
  /\ Positive(ArgRate)
  /\ ArgAmount = Pos(MaxOver(ArgRate.mag))
  /\ ArgAmount.mag # <<>>
  /\ mathResult.at \notin {"rate", "input", "pre", "post"}

C27_WitnessInput ==
  /\ mathOp = "calculateInputAmount"
  /\ Positive(ArgRate)
  /\ ArgDecimals = 0
  /\ ArgAmount = MAX_U64
  /\ mathResult.at \notin {"rate", "output", "pre", "post"}

\* ------------------------------------------------------------------------
\* Builders and facade: properties
\* ------------------------------------------------------------------------

Threw == last.op # "none" /\ last.error # NoError

Succeeded(op) == last.op = op /\ last.error = NoError

\* the commands the operation that settled last has appended
Appended ==
  SubSeq(tx.commands, Len(last.before.commands) + 1, Len(tx.commands))

\* the first result of the k-th command appended
ResultOf(k) == Arg("NestedResult", Len(last.before.commands) + k)

\* the input behind an argument
InputOf(a) == tx.inputs[a.index]

IsPure(a, type) ==
  a.kind = "Input" /\ InputOf(a).kind = "Pure" /\ InputOf(a).type = type

\* the argument stands for what the caller gave: the object input of the
\* id, in lower case and padded to 64 digits, or the handle itself
StandsFor(a, given) ==
  IF given.kind = "string"
  THEN /\ a.kind = "Input"
       /\ InputOf(a).kind = "Object"
       /\ LET lower == toLowerCase(given.value)
              body  == IF startsWith(lower, <<"0", "x">>) THEN slice(lower, 2) ELSE lower
          IN  InputOf(a).value = <<"0", "x">> \o padStart(body, 64, "0")
  ELSE a = given

\* the argument is the object input of an id of 0x and 64 hex digits
IsObject(a, id) == StandsFor(a, Str(id))

\* the integer a decimal text or a bigint stands for
IntegerOf(x) == IF x.type = "bigint" THEN x.big ELSE BigIntOfString(x.str).value

\* the code points of well-formed UTF-8 bytes
Utf8Decode(bytes) ==
  LET leads == {i \in 1..Len(bytes) : bytes[i] < 128 \/ bytes[i] >= 192}
      nth(k) == CHOOSE i \in leads : Cardinality({j \in leads : j < i}) = k - 1
      low(i) == bytes[i] - 128
      cp(i) == IF bytes[i] < 128 THEN bytes[i]
               ELSE IF bytes[i] < 224 THEN (bytes[i] - 192) * 64 + low(i + 1)
               ELSE IF bytes[i] < 240
               THEN (bytes[i] - 224) * 4096 + low(i + 1) * 64 + low(i + 2)
               ELSE (bytes[i] - 240) * 262144 + low(i + 1) * 4096
                    + low(i + 2) * 64 + low(i + 3)
  IN  [k \in 1..Cardinality(leads) |-> cp(nth(k))]

\* the output type read off the response to the query of an owner operation
OutputTypeIn(response) ==
  IF response.type.present THEN <<"0", "x", "a", ":", ":", "u", "s", "d",
                                  "c", ":", ":", "U", "S", "D", "C">> ELSE <<"0",
                                                                             "x",
                                                                             "2",
                                                                             ":",
                                                                             ":",
                                                                             "s",
                                                                             "u",
                                                                             "i",
                                                                             ":",
                                                                             ":",
                                                                             "S",
                                                                             "U",
                                                                             "I">>

\* C6 (as claimed): an operation that throws leaves the commands of the
\* transaction exactly as the step in which it ran found them; none of its
\* calls stays appended without the rest.
C6_NoPartialAppend ==
  Threw => tx.commands = last.before.commands

\* C7: a createVault that returns has appended, after everything that was
\* there, option::none and the create_vault call when the icon URL is
\* omitted or empty (2 calls), and url::new_unsafe, option::some of that URL
\* and the create_vault call when an icon URL is given (3 calls); the
\* create_vault call is last and its last argument is the result of the
\* call before it.
C7_AuxiliaryCalls ==
  Succeeded("createVault") =>
    LET icon == last.params.config.iconUrl
        new  == Appended
        main == new[Len(new)]
    IN  /\ IF icon.present /\ icon.value # <<>>
           THEN /\ Len(new) = 3
                /\ new[1].kind = "MoveCall"
                /\ new[1].target = <<"0", "x", "2", ":", ":", "u", "r", "l",
                                     ":", ":", "n", "e", "w", "_", "u", "n",
                                     "s", "a", "f", "e">>
                /\ Len(new[1].arguments) = 1
                /\ IsPure(new[1].arguments[1], "string")
                /\ InputOf(new[1].arguments[1]).value = icon.value
                /\ new[2].kind = "MoveCall"
                /\ new[2].target = <<"0", "x", "1", ":", ":", "o", "p", "t",
                                     "i", "o", "n", ":", ":", "s", "o", "m",
                                     "e">>
                /\ new[2].arguments = <<ResultOf(1)>>
           ELSE /\ Len(new) = 2
                /\ new[1].kind = "MoveCall"
                /\ new[1].target = <<"0", "x", "1", ":", ":", "o", "p", "t",
                                     "i", "o", "n", ":", ":", "n", "o", "n",
                                     "e">>
                /\ new[1].arguments = <<>>
        /\ main.kind = "MoveCall"
        /\ main.target = PackageId \o <<":", ":", "v", "a", "u", "l", "t",
                                        ":", ":", "c", "r", "e", "a", "t",
                                        "e", "_", "v", "a", "u", "l", "t">>
        /\ main.arguments[Len(main.arguments)] = ResultOf(Len(new) - 1)

C7_Witness ==
  /\ Succeeded("createVault")
  /\ last.params.config.iconUrl.value # <<>>
  /\ last.before.commands # <<>>
  /\ Len(Appended) = 3

\* C8: the create_vault call of a createVault that returns has the target
\* <packageId>::vault::create_vault, the type arguments [input, output] and
\* the seven arguments [rate as u64, treasury, rateDecimals as u8, symbol
\* bytes, name bytes, description bytes, optional URL]; the bytes are the
\* UTF-8 encodings of the configured texts; nothing is returned.
C8_CreateVaultCall ==
  Succeeded("createVault") =>
    LET config == last.params.config
        call   == tx.commands[Len(tx.commands)]
        a      == call.arguments
    IN  /\ call.kind = "MoveCall"
        /\ call.target = PackageId \o <<":", ":", "v", "a", "u", "l", "t",
                                        ":", ":", "c", "r", "e", "a", "t",
                                        "e", "_", "v", "a", "u", "l", "t">>
        /\ call.typeArguments = <<config.inputCoinType, config.outputCoinType>>
        /\ Len(a) = 7
        /\ IsPure(a[1], "u64")
        /\ InputOf(a[1]).value = IntegerOf(config.rate)
        /\ StandsFor(a[2], last.params.outputCoinTreasury)
        /\ IsPure(a[3], "u8")
        /\ InputOf(a[3]).value = config.rateDecimals
        /\ IsPure(a[4], "vector<u8>")
        /\ Utf8Decode(InputOf(a[4]).value) = config.symbol
        /\ IsPure(a[5], "vector<u8>")
        /\ Utf8Decode(InputOf(a[5]).value) = config.name
        /\ IsPure(a[6], "vector<u8>")
        /\ Utf8Decode(InputOf(a[6]).value) = config.description
        /\ \A k \in 4..6 : \A i \in 1..Len(InputOf(a[k]).value) :
             InputOf(a[k]).value[i] \in 0..255
        /\ a[7] = Arg("NestedResult", Len(tx.commands) - 1)
        /\ last.result = Void

C8_Witness ==
  /\ Succeeded("createVault")
  /\ \E i \in 1..Len(last.params.config.symbol) :
       last.params.config.symbol[i] >= 128
  /\ \E i \in 1..Len(last.params.config.name) :
       last.params.config.name[i] >= 65536
  /\ last.before.commands # <<>>

\* the outcome of the base operation on the transaction and the parameters
\* of the transfer variant that settled last
BaseOutcome ==
  CASE last.op = "mint_and_transfer" -> mint(last.before, last.params)
    [] last.op = "redeem_and_transfer" -> redeem(last.before, last.params)
    [] last.op = "withdraw_and_transfer" ->
         withdraw(last.before, last.params,
                  IF last.responses = <<>>
                  THEN [ok |-> FALSE, type |-> [present |-> FALSE, value |-> <<>>]]
                  ELSE last.responses[1])

\* C9 (as claimed): a transfer variant rejects its parameters other than
\* the recipient exactly when the base operation rejects them, and when it
\* returns it has appended the calls of the base operation and then one
\* transfer of the handle the base operation returns to the recipient.
C9_TransferVariants ==
  last.op \in {"mint_and_transfer", "redeem_and_transfer",
               "withdraw_and_transfer"} =>
    /\ (last.error = NoError \/ last.error.at = "pure.address")
         <=> (BaseOutcome.error = NoError)
    /\ last.error = NoError =>
         LET transfer == tx.commands[Len(tx.commands)]
         IN  /\ SubSeq(tx.commands, 1, Len(tx.commands) - 1)
                  = BaseOutcome.tx.commands
             /\ transfer.kind = "TransferObjects"
             /\ transfer.objects = <<BaseOutcome.result>>
             /\ IsPure(transfer.address, "address")
             /\ InputOf(transfer.address).value
                  = <<"0", "x">> \o padStart(slice(last.params.recipient, 2), 64, "0")

\* C10: mint, redeem, deposit, withdraw and updateRate, when they return,
\* have appended exactly one call, to <packageId>::vault::mint, redeem,
\* deposit, withdraw and set_rate, with the type arguments [input, output]
\* and three arguments: [vault, metadata, coin] for mint and redeem, which
\* return the result of the call; [ownerCap, vault, coin] for deposit, which
\* returns nothing; [ownerCap, vault, amount as u64] for withdraw, which
\* returns the result of the call; [ownerCap, vault, newRate as u64] for
\* updateRate, which returns nothing.
C10_SingleCalls ==
  LET p    == last.params
      call == tx.commands[Len(tx.commands)]
      a    == call.arguments
      one(fn, input, output) ==
        /\ Len(Appended) = 1
        /\ call.kind = "MoveCall"
        /\ call.target = PackageId \o <<":", ":", "v", "a", "u", "l", "t",
                                        ":", ":">> \o fn
        /\ call.typeArguments = <<input, output>>
        /\ Len(a) = 3
  IN  /\ Succeeded("mint") =>
           /\ one(<<"m", "i", "n", "t">>, p.inputCoinType, p.outputCoinType)
           /\ IsObject(a[1], p.vaultId)
           /\ IsObject(a[2], p.metadataId)
           /\ StandsFor(a[3], p.inputCoin)
           /\ last.result = ResultOf(1)
      /\ Succeeded("redeem") =>
           /\ one(<<"r", "e", "d", "e", "e", "m">>, p.inputCoinType, p.outputCoinType)
           /\ IsObject(a[1], p.vaultId)
           /\ IsObject(a[2], p.metadataId)
           /\ StandsFor(a[3], p.outputCoin)
           /\ last.result = ResultOf(1)
      /\ Succeeded("deposit") =>
           /\ one(<<"d", "e", "p", "o", "s", "i", "t">>, p.inputCoinType, OutputTypeIn(last.responses[1]))
           /\ StandsFor(a[1], p.ownerCap)
           /\ IsObject(a[2], p.vaultId)
           /\ StandsFor(a[3], p.inputCoin)
           /\ last.result = Void
      /\ Succeeded("withdraw") =>
           /\ one(<<"w", "i", "t", "h", "d", "r", "a", "w">>, p.inputCoinType, OutputTypeIn(last.responses[1]))
           /\ StandsFor(a[1], p.ownerCap)
           /\ IsObject(a[2], p.vaultId)
           /\ IsPure(a[3], "u64")
           /\ InputOf(a[3]).value = IntegerOf(p.amount)
           /\ last.result = ResultOf(1)
      /\ Succeeded("updateRate") =>
           /\ one(<<"s", "e", "t", "_", "r", "a", "t", "e">>, <<"0", "x",
                                                                "2", ":",
                                                                ":", "s",
                                                                "u", "i",
                                                                ":", ":",
                                                                "S", "U",
                                                                "I">>,
                  OutputTypeIn(last.responses[2]))
           /\ StandsFor(a[1], p.ownerCap)
           /\ IsObject(a[2], p.vaultId)
           /\ IsPure(a[3], "u64")
           /\ InputOf(a[3]).value = IntegerOf(p.newRate)
           /\ last.result = Void

C10_Witness ==
  /\ Succeeded("withdraw")
  /\ last.before.commands # <<>>
  /\ last.result = ResultOf(1)
  /\ ~last.responses[1].type.present

\* the operation that settled last failed with VaultError(INVALID_PARAMETERS)
InvalidParameters ==
  last.error.kind = "VaultError" /\ last.error.code = "INVALID_PARAMETERS"

HexDigits ==
  {"0", "1", "2", "3", "4", "5", "6", "7", "8", "9", "a", "b", "c", "d", "e",
   "f", "A", "B", "C", "D", "E", "F"}

\* a string that is not 0x followed by 64 hex digits
NotAnObjectId(x) ==
  /\ x.kind = "string"
  /\ ~(/\ Len(x.value) = 66
       /\ SubSeq(x.value, 1, 2) = <<"0", "x">>
       /\ \A i \in 3..66 : x.value[i] \in HexDigits)

\* C11: in the call an operation that returns has appended, the argument for
\* each coin and capability parameter (outputCoinTreasury, inputCoin,
\* outputCoin, ownerCap) is the object input of the id when the caller gave a
\* string, and the very handle when the caller gave a handle; every object
\* input the operation has registered is the one of an id given as a string,
\* none is registered for a handle.
C11_ObjectOrHandle ==
  LET p         == last.params
      new       == Appended
      newInputs == (Len(last.before.inputs) + 1)..Len(tx.inputs)
      holds(call, given, ids) ==
        /\ \A g \in given : StandsFor(call.arguments[g[2]], g[1])
        /\ \A i \in newInputs :
             tx.inputs[i].kind = "Object" =>
               \E s \in ids \cup {g[1].value :
                                   g \in {h \in given : h[1].kind = "string"}} :
                 IsObject(Arg("Input", i), s)
  IN  /\ Succeeded("createVault") =>
           holds(new[Len(new)], {<<p.outputCoinTreasury, 2>>}, {})
      /\ Succeeded("mint") \/ Succeeded("mint_and_transfer") =>
           holds(new[1], {<<p.inputCoin, 3>>}, {p.vaultId, p.metadataId})
      /\ Succeeded("redeem") \/ Succeeded("redeem_and_transfer") =>
           holds(new[1], {<<p.outputCoin, 3>>}, {p.vaultId, p.metadataId})
      /\ Succeeded("deposit") =>
           holds(new[1], {<<p.ownerCap, 1>>, <<p.inputCoin, 3>>}, {p.vaultId})
      /\ \/ Succeeded("withdraw")
         \/ Succeeded("withdraw_and_transfer")
         \/ Succeeded("updateRate") =>
           holds(new[1], {<<p.ownerCap, 1>>}, {p.vaultId})

\* a deposit with the owner capability given as a handle and the coin as an
\* id has returned, on a transaction that held inputs already
C11_Witness ==
  /\ Succeeded("deposit")
  /\ last.params.ownerCap.kind # "string"
  /\ last.params.inputCoin.kind = "string"
  /\ last.before.inputs # <<>>
  /\ Len(tx.commands) = Len(last.before.commands) + 1

\* C12: mint, mint_and_transfer, deposit and redeem_and_transfer, given valid
\* coin types and for their coin a string that is not an object id, fail
\* with VaultError(INVALID_PARAMETERS) and leave the commands of the
\* transaction as they were.
C12_CoinMustBeObjectId ==
  LET p == last.params
      rejected == InvalidParameters /\ tx.commands = last.before.commands
  IN  /\ last.op \in {"mint", "mint_and_transfer"}
           /\ isValidCoinType(p.inputCoinType)
           /\ isValidCoinType(p.outputCoinType)
           /\ NotAnObjectId(p.inputCoin)
         => rejected
      /\ last.op = "redeem_and_transfer"
           /\ isValidCoinType(p.inputCoinType)
           /\ isValidCoinType(p.outputCoinType)
           /\ NotAnObjectId(p.outputCoin)
         => rejected
      /\ last.op = "deposit"
           /\ isValidCoinType(p.inputCoinType)
           /\ NotAnObjectId(p.inputCoin)
         => rejected

\* mint_and_transfer was given the bare amount "1000" for its coin, on a
\* transaction that held calls already
C12_Witness ==
  /\ last.op = "mint_and_transfer"
  /\ last.params.inputCoin = Str(<<"1", "0", "0", "0">>)
  /\ isValidCoinType(last.params.outputCoinType)
  /\ InvalidParameters
  /\ last.before.commands # <<>>

\* C13 (as claimed): redeem, given for outputCoin a string that is not an
\* object id, fails with VaultError(INVALID_PARAMETERS) and appends no call.
C13_RedeemRejectsMalformedIds ==
  last.op = "redeem" /\ NotAnObjectId(last.params.outputCoin) =>
    InvalidParameters /\ tx.commands = last.before.commands

\* C14 (as claimed): a failure an operation raises because a parameter fails
\* validation (coin type, rate, amount, rate decimals, length of symbol,
\* name or description, icon URL) is a VaultError with code
\* INVALID_PARAMETERS.
C14_ValidationErrorKind ==
  Threw /\ last.error.at \in {"validateCoinType", "validateRate",
                              "validateAmount", "validateRateDecimals",
                              "validateStringLength", "validateUrl"}
    => InvalidParameters

\* ------------------------------------------------------------------------
\* Validators and read operations: single calls
\* ------------------------------------------------------------------------
\* A validator is a function of its argument; a read operation makes one
\* request to the collaborator and neither reads nor writes state of the
\* client, so its call and the answer to its request are one step. Each
\* behaviour makes one call: last holds its arguments, the answer if a
\* request was made, and the error thrown or the value returned.

\* variant: the hex digits are returned as given, without padding
validateSuiAddressUnpadded(address) ==
  IF isValidSuiAddress(address)
  THEN [error |-> NoError, value |-> <<"0", "x">> \o slice(address, 2)]
  ELSE [error |-> Err("Error", "", "validateSuiAddress") @@ [about |-> address],
        value |-> <<>>]

validateSuiAddress(address) ==
  IF isValidSuiAddress(address)
  THEN [error |-> NoError,
        value |-> <<"0", "x">> \o padStart(slice(address, 2), 64, "0")]
  ELSE [error |-> Err("Error", "", "validateSuiAddress") @@ [about |-> address],
        value |-> <<>>]

\* what the chain-query collaborator answers to each request: a rejection
\* with its error, or data
Answers ==
  LET failure == [ok |-> FALSE, error |-> Err("Error", "", "suiClient")]
      ok(data) == [ok |-> TRUE, error |-> NoError, data |-> data]
      fields == [present       |-> TRUE,
                 rate          |-> <<"2", "0", "0", "0", "0", "0", "0", "0",
                                     "0", "0">>,
                 rate_decimals |-> 9,
                 reserve       |-> [type   |-> "string",
                                    value  |-> <<"5", "0", "0">>,
                                    number |-> 0],
                 name          |-> <<"V", "a", "u", "l", "t">>,
                 symbol        |-> <<"v", "U", "S", "D">>,
                 description   |-> <<"d", "e", "m", "o">>,
                 icon_url      |-> [present |-> TRUE, url |-> Sample.icon]]
      content == [present |-> TRUE, dataType |-> "moveObject", fields |-> fields]
      object == [present  |-> TRUE,
                 type     |-> [present |-> TRUE, value |-> Sample.vaultType],
                 content  |-> content,
                 objectId |-> Sample.vault,
                 version  |-> <<"7">>,
                 digest   |-> <<"9", "x", "Q", "e">>]
      \* the reserve field: a string, a number, an object that holds a
      \* string at fields.value, fields.balance or value, or nothing
      reserve(type, value, number) ==
        [type |-> type, value |-> value, number |-> number]
      reserves == {reserve("string", <<>>, 0),
                   reserve("number", <<>>, 0),
                   reserve("number", <<>>, 500),
                   reserve("fields.value", <<"5", "0", "0">>, 0),
                   reserve("fields.balance", <<"5", "0", "0">>, 0),
                   reserve("value", <<>>, 0),
                   reserve("undefined", <<>>, 0)}
      name(type, value) == [type |-> type, value |-> value]
      owned(type, vault_id, objectId) ==
        [type     |-> [present |-> type # <<>>, value |-> type],
         vault_id |-> [present |-> vault_id # <<>>, value |-> vault_id],
         objectId |-> objectId]
      capType == PackageId \o <<":", ":", "v", "a", "u", "l", "t", ":", ":",
                                "O", "w", "n", "e", "r", "C", "a", "p">>
  IN  [getVault |->
         {failure, ok([object EXCEPT !.present = FALSE])}
         \cup {ok([object EXCEPT !.content.fields.rate = r[1],
                                 !.content.fields.rate_decimals = r[2]]) :
                 r \in {<<<<"2", "0", "0", "0", "0", "0", "0", "0", "0", "0">>, 9>>, <<<<"1">>, 0>>, <<<<"0">>, 9>>,
                        <<<<"3">>, MAX_RATE_DECIMALS>>,
                        <<<<"1", "8", "4", "4", "6", "7", "4", "4", "0", "7",
                            "3", "7", "0", "9", "5", "5", "1", "6", "1", "5">>, 0>>}},
       getObject |->
         {failure, ok(object),
          ok([object EXCEPT !.present = FALSE, !.type.present = FALSE,
                            !.content.present = FALSE]),
          ok([object EXCEPT !.content.present = FALSE]),
          ok([object EXCEPT !.content.dataType = "package"]),
          ok([object EXCEPT !.content.fields.present = FALSE]),
          ok([object EXCEPT !.type.present = FALSE]),
          ok([object EXCEPT !.content.fields.icon_url.present = FALSE])}
         \cup {ok([object EXCEPT !.content.fields.reserve = r]) :
                 r \in reserves},
       getDynamicFields |->
         {failure, ok(<<>>),
          ok(<<name("string", Sample.metadata)>>),
          ok(<<name("string", <<"m", "e", "t", "a", "d", "a", "t", "a">>), name("u64", Sample.coin),
               name("string", Sample.metadata), name("string", Sample.coin)>>),
          ok(<<name("string", <<"0", "x", "1">>)>>)},
       getOwnedObjects |->
         {failure, ok(<<>>),
          ok(<<owned(capType, Sample.vault, Sample.ownerCap)>>),
          ok(<<owned(<<>>, Sample.vault, Sample.coin),
               owned(Sample.vaultType, Sample.vault, Sample.coin),
               owned(capType, <<>>, Sample.coin),
               owned(capType, Sample.metadata, Sample.coin),
               owned(capType, Sample.vault, Sample.ownerCap),
               owned(capType, Sample.vault, Sample.treasury)>>),
          ok(<<owned(capType, <<"0", "x", "a">>, Sample.coin)>>),
          ok(<<owned(capType, <<"v", "a", "u", "l", "t">>, Sample.coin),
               owned(capType, Sample.vault, Sample.ownerCap)>>)},
       getCoins |->
         {failure, ok(<<>>), ok(<<Sample.coin>>),
          ok(<<Sample.coin, Sample.treasury>>)},
       getBalance |->
         {failure,
          ok([present |-> FALSE, totalBalance |-> <<>>]),
          ok([present |-> TRUE, totalBalance |-> <<"0">>]),
          ok([present |-> TRUE, totalBalance |-> <<"1", "0", "0", "0">>]),
          ok([present |-> TRUE, totalBalance |-> <<"1", "8", "4", "4", "6",
                                                   "7", "4", "4", "0", "7",
                                                   "3", "7", "0", "9", "5",
                                                   "5", "1", "6", "1", "6">>])}]

\* the ids and addresses the read operations are called with
QueryIds == {Sample.vault, Sample.metadata, <<"0", "x", "a">>, <<"v", "a",
                                                                 "u", "l",
                                                                 "t">>}

\* a call returns or throws; nothing else changes
Called(op, params, responses, error, result) ==
  /\ Settle(op, params, responses, Built(tx, error, result))
  /\ UNCHANGED <<mathVars, pending, started, utilVars>>

\* getVault(vaultId) where the getObject request, if it is made, is
\* answered by response: the requests made, the error thrown and the vault
\* returned
getVault(vaultId, response) ==
  LET objectId == validateSuiAddress(vaultId)
      data     == response.data
      fields   == data.content.fields
      reserve  == fields.reserve
      reserveValue ==
        IF reserve.type = "number"
        THEN NatToString(NatOf(reserve.number))
        ELSE IF reserve.type = "undefined" \/ reserve.value = <<>>
        THEN <<"0">>
        ELSE reserve.value
      vault == [id             |-> vaultId,
                rate           |-> fields.rate,
                rateDecimals   |-> fields.rate_decimals,
                reserveValue   |-> reserveValue,
                inputCoinType  |-> <<"u", "n", "k", "n", "o", "w", "n">>,
                outputCoinType |-> <<"u", "n", "k", "n", "o", "w", "n">>,
                objectRef      |-> [objectId |-> data.objectId,
                                    version  |-> data.version,
                                    digest   |-> data.digest]]
      \* the catch block wraps whatever is not a VaultError
      failed == Err("VaultError", "NETWORK_ERROR", "getVault")
      outcome(requests, error, result) ==
        [requests |-> requests, error |-> error, result |-> result]
  IN  IF objectId.error # NoError
      THEN outcome(<<>>, objectId.error, Void)
      ELSE IF ~response.ok
      THEN outcome(<<response>>, failed, Void)
      ELSE IF /\ data.present
              /\ data.content.present
              /\ data.content.dataType = "moveObject"
      THEN IF fields.present
           THEN outcome(<<response>>, NoError, vault)
           ELSE outcome(<<response>>, failed, Void)
      ELSE outcome(<<response>>,
                   Err("VaultError", "INVALID_PARAMETERS", "getVault"), Void)

GetVault ==
  /\ last.op = "none"
  /\ \E vaultId \in QueryIds, response \in Answers.getObject :
       Called("getVault", vaultId, getVault(vaultId, response).requests,
              getVault(vaultId, response).error,
              getVault(vaultId, response).result)

GetVaultMetadata ==
  /\ last.op = "none"
  /\ \E metadataId \in QueryIds, response \in Answers.getObject :
       LET objectId == validateSuiAddress(metadataId)
           data     == response.data
           fields   == data.content.fields
           metadata == [id             |-> metadataId,
                        name           |-> fields.name,
                        symbol         |-> fields.symbol,
                        description    |-> fields.description,
                        iconUrl        |-> IF fields.icon_url.present
                                           THEN fields.icon_url.url
                                           ELSE Void,
                        inputCoinType  |-> <<"u", "n", "k", "n", "o", "w",
                                             "n">>,
                        outputCoinType |-> <<"u", "n", "k", "n", "o", "w",
                                             "n">>,
                        objectRef      |-> [objectId |-> data.objectId,
                                            version  |-> data.version,
                                            digest   |-> data.digest]]
       IN  IF objectId.error # NoError
           THEN Called("getVaultMetadata", metadataId, <<>>, objectId.error,
                       Void)
           ELSE IF ~response.ok
           THEN Called("getVaultMetadata", metadataId, <<response>>,
                       response.error, Void)
           ELSE IF \/ ~data.present
                   \/ ~data.content.present
                   \/ data.content.dataType # "moveObject"
           THEN Called("getVaultMetadata", metadataId, <<response>>,
                       Err("VaultError", "INVALID_PARAMETERS",
                           "getVaultMetadata"), Void)
           ELSE IF ~fields.present
           THEN Called("getVaultMetadata", metadataId, <<response>>,
                       Err("TypeError", "", "getVaultMetadata"), Void)
           ELSE Called("getVaultMetadata", metadataId, <<response>>, NoError,
                       metadata)

GetVaultTypes ==
  /\ last.op = "none"
  /\ \E vaultId \in QueryIds, response \in Answers.getObject :
       LET objectId == validateSuiAddress(vaultId)
           match    == matchTypeArgs(response.data)
           types    == [inputCoinType  |-> IF match.found THEN match.first
                                           ELSE <<"0", "x", "2", ":", ":",
                                                  "s", "u", "i", ":", ":",
                                                  "S", "U", "I">>,
                        outputCoinType |-> IF match.found THEN match.second
                                           ELSE Void]
       IN  IF objectId.error # NoError
           THEN Called("getVaultTypes", vaultId, <<>>, objectId.error, Void)
           ELSE IF ~response.ok
           THEN Called("getVaultTypes", vaultId, <<response>>, response.error,
                       Void)
           ELSE Called("getVaultTypes", vaultId, <<response>>, NoError, types)

GetVaultMetadataId ==
  /\ last.op = "none"
  /\ \E vaultId \in QueryIds, response \in Answers.getDynamicFields :
       LET parentId == validateSuiAddress(vaultId)
           entries  == response.data
           ids      == {i \in 1..Len(entries) :
                          /\ entries[i].type = "string"
                          /\ isObjectIdString(entries[i].value)}
           found    == IF ids = {} THEN Void
                       ELSE entries[CHOOSE i \in ids : \A j \in ids : i <= j]
                              .value
       IN  IF parentId.error # NoError
           THEN Called("getVaultMetadataId", vaultId, <<>>, parentId.error,
                       Void)
           \* catch { return undefined }
           ELSE IF ~response.ok
           THEN Called("getVaultMetadataId", vaultId, <<response>>, NoError,
                       Void)
           ELSE Called("getVaultMetadataId", vaultId, <<response>>, NoError,
                       found)

GetOwnerCap ==
  /\ last.op = "none"
  /\ \E vaultId \in QueryIds, ownerAddress \in {Sample.recipient, Sample.noHex},
        response \in Answers.getOwnedObjects :
       LET params   == <<vaultId, ownerAddress>>
           normalizedVaultId == validateSuiAddress(vaultId)
           owner    == validateSuiAddress(ownerAddress)
           entries  == response.data
           suffix   == <<":", ":", "v", "a", "u", "l", "t", ":", ":", "O",
                         "w", "n", "e", "r", "C", "a", "p">>
           isCap(e) == /\ e.type.present
                       /\ Len(e.type.value) >= Len(suffix)
                       /\ SubSeq(e.type.value,
                                 Len(e.type.value) - Len(suffix) + 1,
                                 Len(e.type.value)) = suffix
           \* the entries at which the loop does not just go on: a cap
           \* whose vault_id is no address, or the one of this vault
           throws(e)  == validateSuiAddress(e.vault_id.value).error # NoError
           matches(e) == validateSuiAddress(e.vault_id.value).value
                           = normalizedVaultId.value
           stops    == {i \in 1..Len(entries) :
                          /\ isCap(entries[i])
                          /\ entries[i].vault_id.present
                          /\ throws(entries[i]) \/ matches(entries[i])}
           stop     == entries[CHOOSE i \in stops : \A j \in stops : i <= j]
       IN  IF normalizedVaultId.error # NoError
           THEN Called("getOwnerCap", params, <<>>, normalizedVaultId.error,
                       Void)
           ELSE IF owner.error # NoError
           THEN Called("getOwnerCap", params, <<>>, owner.error, Void)
           ELSE IF ~response.ok
           THEN Called("getOwnerCap", params, <<response>>, response.error,
                       Void)
           ELSE IF stops = {}
           THEN Called("getOwnerCap", params, <<response>>, NoError, Void)
           ELSE IF throws(stop)
           THEN Called("getOwnerCap", params, <<response>>,
                       validateSuiAddress(stop.vault_id.value).error, Void)
           ELSE Called("getOwnerCap", params, <<response>>, NoError,
                       stop.objectId)

GetCoins ==
  /\ last.op = "none"
  /\ \E owner \in {Sample.recipient, Sample.noHex},
        coinType \in {Sample.sui, Sample.noAddress},
        response \in Answers.getCoins :
       IF response.ok
       THEN Called("getCoins", <<owner, coinType>>, <<response>>, NoError,
                   response.data)
       ELSE Called("getCoins", <<owner, coinType>>, <<response>>,
                   [kind    |-> "VaultError",
                    code    |-> "NETWORK_ERROR",
                    at      |-> "getCoins",
                    details |-> [originalError |-> response.error]],
                   Void)

\* variant: the failure of the request is passed on
getCoinBalanceRethrows(response) ==
  IF response.ok /\ response.data.present
  THEN [error |-> NoError, result |-> response.data.totalBalance]
  ELSE [error |-> Err("Error", "", "getBalance"), result |-> Void]

\* try { return (await getBalance(...)).totalBalance } catch { return '0' }
getCoinBalance(response) ==
  IF response.ok /\ response.data.present
  THEN [error |-> NoError, result |-> response.data.totalBalance]
  ELSE [error |-> NoError, result |-> <<"0">>]

GetCoinBalance ==
  /\ last.op = "none"
  /\ \E owner \in {Sample.recipient, Sample.noHex},
        coinType \in {Sample.sui, Sample.noAddress},
        response \in Answers.getBalance :
       Called("getCoinBalance", <<owner, coinType>>, <<response>>,
              getCoinBalance(response).error, getCoinBalance(response).result)

\* the longest text of the exhaustive part of the validator inputs
MaxText == 3

\* texts given as addresses: every text of at most MaxText characters over
\* "0", "x", "a", "G", and "0x", "0X" or nothing followed by 1, 63, 64 or 65
\* equal characters, the last of them in turn replaced by "g"
Addresses ==
  LET short == UNION {[1..n -> {"0", "x", "a", "G"}] : n \in 0..MaxText}
      body(n, c) == [i \in 1..n |-> c]
      long == {prefix \o body(n, c) \o tail :
                 prefix \in {<<"0", "x">>, <<"0", "X">>, <<>>},
                 n \in {0, 62, 63, 64},
                 c \in {"0", "9", "b", "F"},
                 tail \in {<<"1">>, <<"g">>}}
  IN  short \cup long

\* texts given as coin types: an address, a module and a struct name, each
\* well-formed or not, joined by "::"; the same with a segment more, a
\* segment less, a single ":" or a third ":" as separator
CoinTypes ==
  LET addresses == {<<"0", "x", "2">>, <<"0", "x">> \o [i \in 1..64 |-> "A"],
                    <<"0", "x">> \o [i \in 1..65 |-> "A"], <<"s", "u", "i">>, <<"0",
                                                                                "x",
                                                                                "g">>, <<>>}
      modules   == {<<"s", "u", "i">>, <<"_", "m", "1">>, <<"1", "a", "b",
                                                            "c">>, <<"a",
                                                                     "-",
                                                                     "b">>, <<>>}
      structs   == {<<"S", "U", "I">>, <<"S", "_", "1">>, <<"1", "S">>, <<"S",
                                                                          " ",
                                                                          "U">>, <<>>}
      sep       == <<":", ":">>
  IN  {a \o sep \o m \o sep \o s :
         a \in addresses, m \in modules, s \in structs}
      \cup {a \o sep \o m : a \in addresses, m \in modules}
      \cup {<<"0", "x", "2", ":", ":", "s", "u", "i", ":", ":", "S", "U",
              "I", ":", ":", "e", "x", "t", "r", "a">>, <<"0", "x", "2", ":",
                                                          ":", "s", "u", "i",
                                                          ":", ":", "S", "U",
                                                          "I", ":", ":">>, <<":",
                                                                             ":",
                                                                             "0",
                                                                             "x",
                                                                             "2",
                                                                             ":",
                                                                             ":",
                                                                             "s",
                                                                             "u",
                                                                             "i",
                                                                             ":",
                                                                             ":",
                                                                             "S",
                                                                             "U",
                                                                             "I">>,
            <<"0", "x", "2", ":", "s", "u", "i", ":", ":", "S", "U", "I">>, <<"0",
                                                                              "x",
                                                                              "2",
                                                                              ":",
                                                                              ":",
                                                                              ":",
                                                                              "s",
                                                                              "u",
                                                                              "i",
                                                                              ":",
                                                                              ":",
                                                                              "S",
                                                                              "U",
                                                                              "I">>, <<"0",
                                                                                       "x",
                                                                                       "2",
                                                                                       ":",
                                                                                       ":",
                                                                                       "s",
                                                                                       "u",
                                                                                       "i",
                                                                                       ":",
                                                                                       ":",
                                                                                       ":",
                                                                                       "S",
                                                                                       "U",
                                                                                       "I">>,
            <<"0", "x", "2", ":", ":", "s", "u", "i", ":", ":", "S", "U",
              "I", ":">>, <<"0", "x", "2", ":", ":", ":", ":", "S", "U", "I">>, <<>>}

IsValidSuiAddress ==
  /\ last.op = "none"
  /\ \E address \in Addresses :
       Called("isValidSuiAddress", address, <<>>, NoError,
              isValidSuiAddress(address))

\* isValidObjectId(objectId) returns isValidSuiAddress(objectId)
IsValidObjectId ==
  /\ last.op = "none"
  /\ \E objectId \in Addresses :
       Called("isValidObjectId", objectId, <<>>, NoError,
              isValidSuiAddress(objectId))

ValidateSuiAddress ==
  /\ last.op = "none"
  /\ \E address \in Addresses :
       Called("validateSuiAddress", address, <<>>,
              validateSuiAddress(address).error,
              IF validateSuiAddress(address).error = NoError
              THEN validateSuiAddress(address).value ELSE Void)

IsValidCoinType ==
  /\ last.op = "none"
  /\ \E coinType \in CoinTypes :
       Called("isValidCoinType", coinType, <<>>, NoError,
              isValidCoinType(coinType))

\* validateCoinType returns the text it was given
ValidateCoinType ==
  /\ last.op = "none"
  /\ \E coinType \in CoinTypes :
       Called("validateCoinType", coinType, <<>>, validateCoinType(coinType),
              IF validateCoinType(coinType) = NoError THEN coinType ELSE Void)

\* every combination of a valid and of invalid values of the eight fields
ValidateVaultConfig ==
  /\ last.op = "none"
  /\ \E config \in
          [rate           : {AsString(<<"2", "0", "0", "0", "0", "0", "0",
                                        "0", "0", "0">>), AsString(<<"0">>),
                             AsString(<<"1", "e", "9">>)},
           rateDecimals   : {0, MAX_RATE_DECIMALS, MAX_RATE_DECIMALS + 1},
           symbol         : {<<118, 85, 83, 68>>, <<>>, [i \in 1..32 |-> 86],
                             [i \in 1..33 |-> 86]},
           name           : {<<86, 97, 117, 108, 116>>, <<>>, [i \in 1..257 |-> 86]},
           description    : {<<100, 101, 109, 111>>, <<>>, [i \in 1..1001 |-> 86]},
           inputCoinType  : {Sample.sui, Sample.noAddress},
           outputCoinType : {Sample.usdc, <<"0", "x", "a", ":", ":", "u",
                                            "s", "d", "c">>},
           iconUrl        : {[present |-> FALSE, value |-> <<>>],
                             [present |-> TRUE, value |-> <<>>],
                             [present |-> TRUE, value |-> Sample.icon],
                             [present |-> TRUE, value |-> Sample.noUrl]}] :
       Called("validateVaultConfig", config, <<>>, validateVaultConfig(config),
              Void)

\* a finite number with the integer part n and the fraction digits frac
Number(neg, n, frac) ==
  [type |-> "number",
   num |-> [kind |-> "finite", neg |-> neg, int |-> n, frac |-> frac]]

\* the amounts and rates the validators are called with: strings, bigints
\* and numbers
Amounts ==
  {AsString(s) : s \in {<<"0">>, <<"7">>, <<"-", "1">>, <<"+", "7">>, <<>>, <<"a",
                                                                              "b",
                                                                              "c">>,
                        <<"1", ".", "5">>, <<"1", "e", "3">>, <<"1", "8",
                                                                "4", "4",
                                                                "6", "7",
                                                                "4", "4",
                                                                "0", "7",
                                                                "3", "7",
                                                                "0", "9",
                                                                "5", "5",
                                                                "1", "6",
                                                                "1", "6">>}}
  \cup {[type |-> "bigint", big |-> b] :
          b \in {Big(FALSE, <<>>), Big(FALSE, <<5>>), Big(TRUE, <<3>>)}}
  \cup {Sample.tooLarge}
  \cup {Number(FALSE, <<>>, <<>>), Number(FALSE, <<42>>, <<>>),
        Number(TRUE, <<1>>, <<>>), Number(FALSE, <<1>>, <<"5">>),
        Number(FALSE, NatPow10(20), <<>>), Number(FALSE, NatPow10(21), <<>>),
        Number(FALSE, NatMul(<<15>>, NatPow10(21)), <<>>),
        [type |-> "number",
         num |-> [kind |-> "NaN", neg |-> FALSE, int |-> <<>>, frac |-> <<>>]],
        [type |-> "number",
         num |-> [kind |-> "Infinity", neg |-> FALSE, int |-> <<>>,
                  frac |-> <<>>]]}

IsValidAmount ==
  /\ last.op = "none"
  /\ \E amount \in Amounts :
       Called("isValidAmount", amount, <<>>, NoError, isValidAmount(amount))

ValidateAmount ==
  /\ last.op = "none"
  /\ \E amount \in Amounts :
       Called("validateAmount", amount, <<>>, validateAmount(amount).error,
              IF validateAmount(amount).error = NoError
              THEN validateAmount(amount).value ELSE Void)

IsValidRate ==
  /\ last.op = "none"
  /\ \E rate \in Amounts :
       Called("isValidRate", rate, <<>>, NoError, isValidRate(rate))

ValidateRate ==
  /\ last.op = "none"
  /\ \E rate \in Amounts :
       Called("validateRate", rate, <<>>, validateRate(rate).error,
              IF validateRate(rate).error = NoError
              THEN validateRate(rate).value ELSE Void)

\* variant: any URL that parses is taken as an RPC URL
validateRpcUrlAnyScheme(url) == validateUrl(url)

\* validateRpcUrl(url): validateUrl, then the text must open with http://
\* or https://
validateRpcUrl(url) ==
  IF validateUrl(url) # NoError THEN validateUrl(url)
  ELSE IF ~startsWith(url, <<"h", "t", "t", "p", ":", "/", "/">>) /\ ~startsWith(url, <<"h",
                                                                                        "t",
                                                                                        "t",
                                                                                        "p",
                                                                                        "s",
                                                                                        ":",
                                                                                        "/",
                                                                                        "/">>)
  THEN Err("Error", "", "validateRpcUrl") @@ [about |-> url]
  ELSE NoError

\* RivaClient.initialize(config) where the liveness probe, if it is made,
\* is answered by probe: the error thrown, the client returned and the
\* requests made
initialize(config, probe) ==
  LET network == config.network
      invalid(at) ==
        [error    |-> Err("VaultError", "INVALID_PARAMETERS", at),
         result   |-> Void,
         requests |-> <<>>]
  IN  IF ~network.present \/ ~network.rpcUrl.present
         \/ network.rpcUrl.value = <<>>
      THEN invalid("rpcUrl")
      ELSE IF ~network.packageId.present \/ network.packageId.value = <<>>
      THEN invalid("packageId")
      ELSE IF validateRpcUrl(network.rpcUrl.value) # NoError
      THEN invalid("validateRpcUrl")
      ELSE IF ~isObjectIdString(network.packageId.value)
      THEN invalid("isValidPkg")
      ELSE IF ~probe.ok
      THEN [error    |-> Err("VaultError", "NETWORK_ERROR", "initialize"),
            result   |-> Void,
            requests |-> <<probe>>]
      ELSE [error    |-> NoError,
            result   |-> [kind |-> "RivaClient", config |-> config],
            requests |-> <<probe>>]

\* the configurations initialize is called with: no network, and every
\* pairing of an RPC URL with a package id, each absent, empty, valid or
\* malformed
Configs ==
  LET given(s) == [present |-> TRUE, value |-> s]
      absent   == [present |-> FALSE, value |-> <<>>]
      hex(n)   == [i \in 1..n |-> "a"]
      urls     == {absent, given(<<>>), given(<<"h", "t", "t", "p", "s", ":",
                                                "/", "/", "r", "p", "c", ".",
                                                "i", "o">>),
                   given(<<"h", "t", "t", "p", ":", "/", "/", "r", "p", "c",
                           ".", "i", "o", ":", "9", "0", "0", "0">>), given(<<"f",
                                                                              "t",
                                                                              "p",
                                                                              ":",
                                                                              "/",
                                                                              "/",
                                                                              "r",
                                                                              "p",
                                                                              "c",
                                                                              ".",
                                                                              "i",
                                                                              "o">>),
                   given(<<"r", "p", "c", ".", "i", "o">>), given(<<"h", "t",
                                                                    "t", "p",
                                                                    ":", "/",
                                                                    "/">>),
                   given(<<"H", "T", "T", "P", "S", ":", "/", "/", "r", "p",
                           "c", ".", "i", "o">>), given(<<"h", "t", "t", "p",
                                                          "s", ":", "/", "r",
                                                          "p", "c", ".", "i",
                                                          "o">>)}
      packages == {absent, given(<<>>), given(PackageId),
                   given(<<"0", "x">> \o hex(64)), given(<<"0", "x", "a">>),
                   given(<<"0", "x">> \o hex(63)), given(<<"0", "x">> \o hex(65)),
                   given(<<"0", "x">> \o hex(63) \o <<"g">>), given(hex(66)),
                   given(<<"0", "X">> \o hex(64))}
  IN  {[network |-> [present |-> FALSE, rpcUrl |-> absent,
                     packageId |-> absent]]}
      \cup {[network |-> [present |-> TRUE, rpcUrl |-> u, packageId |-> p]] :
              u \in urls, p \in packages}

Initialize ==
  /\ last.op = "none"
  /\ \E config \in Configs :
       \E probe \in {[ok |-> TRUE, error |-> ""],
                     [ok |-> FALSE, error |-> "Error"]} :
         Called("initialize", config, initialize(config, probe).requests,
                initialize(config, probe).error,
                initialize(config, probe).result)

\* the engine's error as the error of the call that let it pass
EngineError(res) ==
  IF res.kind = "VaultError" THEN Err("VaultError", res.code, res.at)
  ELSE Err(res.kind, "", res.at)

\* calculateExchange(vaultId, inputAmount, direction) where the getObject
\* request of getVault is answered by response; the rate of a vault is the
\* decimal string of a u64
calculateExchange(vaultId, inputAmount, direction, response) ==
  LET quote(vault, amount, outputAmount) ==
        LET outcome(error, result) ==
              [requests |-> vault.requests, error |-> error,
               result |-> result]
        IN  IF vault.error # NoError THEN outcome(vault.error, Void)
            ELSE IF amount.error # NoError THEN outcome(amount.error, Void)
            ELSE IF outputAmount.kind # "ok"
            THEN outcome(EngineError(outputAmount), Void)
            ELSE outcome(NoError,
                         [inputAmount  |-> BigIntToString(amount.value),
                          outputAmount |->
                            BigIntToString(outputAmount.value),
                          rate         |-> vault.result.rate,
                          rateDecimals |-> vault.result.rateDecimals,
                          priceImpact  |-> <<"0">>])
      convert(rate, amount, rateDecimals) ==
        IF direction = "mint"
        THEN calculateOutputAmount(rate, amount, rateDecimals)
        ELSE calculateInputAmount(rate, amount, rateDecimals)
      converted(vault, amount) ==
        quote(vault, amount,
              convert(BigIntOfString(vault.result.rate).value, amount.value,
                      vault.result.rateDecimals))
  IN  converted(getVault(vaultId, response), validateAmount(inputAmount))

\* direction is 'mint' when it is not given
CalculateExchange ==
  /\ last.op = "none"
  /\ \E vaultId \in QueryIds, response \in Answers.getVault,
        inputAmount \in
          {AsString(s) : s \in {<<"0">>, <<"1", "0", "0", "0">>, <<"1", "0",
                                                                   "0", "0",
                                                                   "0", "0",
                                                                   "0", "0",
                                                                   "0", "0",
                                                                   "0", "0",
                                                                   "0", "0",
                                                                   "0", "0",
                                                                   "0", "0",
                                                                   "0">>,
                                <<"1", "8", "4", "4", "6", "7", "4", "4",
                                  "0", "7", "3", "7", "0", "9", "5", "5",
                                  "1", "6", "1", "5">>,
                                <<"1", "8", "4", "4", "6", "7", "4", "4",
                                  "0", "7", "3", "7", "0", "9", "5", "5",
                                  "1", "6", "1", "6">>, <<"-", "1">>, <<>>,
                                <<"a", "b", "c">>}}
          \cup {[type |-> "bigint", big |-> Big(FALSE, <<5>>)],
                Sample.tooLarge},
        direction \in {"undefined", "mint", "redeem"} :
       LET quote ==
             calculateExchange(vaultId, inputAmount,
                               IF direction = "undefined" THEN "mint"
                               ELSE direction,
                               response)
       IN  Called("calculateExchange",
                  [vaultId |-> vaultId, inputAmount |-> inputAmount,
                   direction |-> direction],
                  quote.requests, quote.error, quote.result)

CallNext ==
  \/ GetVault
  \/ GetVaultMetadata
  \/ GetVaultTypes
  \/ GetVaultMetadataId
  \/ GetOwnerCap
  \/ GetCoins
  \/ GetCoinBalance
  \/ IsValidSuiAddress
  \/ IsValidObjectId
  \/ ValidateSuiAddress
  \/ IsValidCoinType
  \/ ValidateCoinType
  \/ ValidateVaultConfig
  \/ IsValidAmount
  \/ ValidateAmount
  \/ IsValidRate
  \/ ValidateRate
  \/ Initialize
  \/ CalculateExchange

CallSpec == Init /\ [][CallNext]_vars

\* ------------------------------------------------------------------------
\* Validators and read operations: properties
\* ------------------------------------------------------------------------

\* the request of the call that settled last was made and was rejected
RequestFailed == last.responses # <<>> /\ ~last.responses[1].ok

\* C15 (as claimed): when the request of getVault, getVaultMetadata,
\* getVaultTypes, getVaultMetadataId, getOwnerCap or getCoins to the
\* collaborator fails, the operation fails with VaultError(NETWORK_ERROR)
\* that carries the original error; it never returns a value.
C15_QueryErrorsWrapped ==
  /\ last.op \in {"getVault", "getVaultMetadata", "getVaultTypes",
                  "getVaultMetadataId", "getOwnerCap", "getCoins"}
  /\ RequestFailed
  => /\ last.error.kind = "VaultError"
     /\ last.error.code = "NETWORK_ERROR"
     /\ "details" \in DOMAIN last.error
     /\ last.error.details.originalError = last.responses[1].error

\* C16: getCoinBalance never throws; it returns "0" when the request fails
\* and the total balance of the answer, unchanged, when it succeeds.
C16_BalanceDegradesToZero ==
  last.op = "getCoinBalance" =>
    /\ last.error = NoError
    /\ RequestFailed => last.result = <<"0">>
    /\ last.responses[1].ok /\ last.responses[1].data.present =>
         last.result = last.responses[1].data.totalBalance

\* a balance lookup whose request failed has returned "0"
C16_Witness ==
  /\ last.op = "getCoinBalance"
  /\ RequestFailed
  /\ last.result = <<"0">>

\* 0x followed by 1 to 64 hexadecimal digits
WellFormedAddress(s) ==
  /\ Len(s) \in 3..66
  /\ s[1] = "0" /\ s[2] = "x"
  /\ \A i \in 3..Len(s) : s[i] \in HexDigits

\* a letter or an underscore, then letters, digits and underscores
WellFormedName(s) ==
  LET digits  == {DigitChars[i] : i \in 1..10}
      letters == {UpperChars[i] : i \in 1..26} \cup {LowerChars[i] : i \in 1..26}
                 \cup {"_"}
  IN  /\ s # <<>>
      /\ s[1] \in letters
      /\ \A i \in 1..Len(s) : s[i] \in letters \cup digits

\* C17: isValidSuiAddress(s) and isValidObjectId(s) are true exactly when s
\* is 0x followed by 1 to 64 hexadecimal digits.
C17_AddressPredicate ==
  last.op \in {"isValidSuiAddress", "isValidObjectId"} =>
    (last.result <=> WellFormedAddress(last.params))

\* 0x and 64 hex digits have been accepted as an address
C17_Witness ==
  /\ last.op = "isValidSuiAddress"
  /\ Len(last.params) = 66
  /\ last.result = TRUE

\* C18: validateSuiAddress(s) returns, for a valid s, 0x and the hex digits
\* of s behind as many zeros as make 64 digits; the result is a valid
\* address that normalizes to itself; for an invalid s it throws.
C18_Normalization ==
  last.op = "validateSuiAddress" =>
    LET s == last.params
    IN  IF WellFormedAddress(s)
        THEN /\ last.error = NoError
             /\ last.result = <<"0", "x">> \o [i \in 1..(66 - Len(s)) |-> "0"]
                                \o SubSeq(s, 3, Len(s))
             /\ Len(last.result) = 66
             /\ WellFormedAddress(last.result)
             /\ validateSuiAddress(last.result)
                  = [error |-> NoError, value |-> last.result]
        ELSE last.error # NoError /\ last.result = Void

\* 0x1 has been normalized to 0x, 63 zeros and 1
C18_Witness ==
  /\ last.op = "validateSuiAddress"
  /\ last.params = <<"0", "x", "1">>
  /\ last.result = <<"0", "x">> \o [i \in 1..63 |-> "0"] \o <<"1">>

\* the text is address::module::struct with a well-formed address and
\* well-formed names
WellFormedCoinType(t) ==
  \E i, j \in 1..Len(t) :
    /\ i + 2 <= j /\ j + 2 <= Len(t)
    /\ SubSeq(t, i, i + 1) = <<":", ":">>
    /\ SubSeq(t, j, j + 1) = <<":", ":">>
    /\ WellFormedAddress(SubSeq(t, 1, i - 1))
    /\ WellFormedName(SubSeq(t, i + 2, j - 1))
    /\ WellFormedName(SubSeq(t, j + 2, Len(t)))

\* C19: isValidCoinType(t) is true exactly when t is three segments
\* separated by "::", the first a valid address, the second and third
\* matching [A-Za-z_][A-Za-z0-9_]*; validateCoinType returns t unchanged
\* when it is valid and throws otherwise.
C19_CoinTypePredicate ==
  /\ last.op = "isValidCoinType" =>
       (last.result <=> WellFormedCoinType(last.params))
  /\ last.op = "validateCoinType" =>
       IF WellFormedCoinType(last.params)
       THEN last.error = NoError /\ last.result = last.params
       ELSE last.error # NoError /\ last.result = Void

\* a coin type whose module name starts with a digit has been rejected
C19_Witness ==
  /\ last.op = "isValidCoinType"
  /\ last.params = <<"0", "x", "2", ":", ":", "1", "a", "b", "c", ":", ":",
                     "S", "U", "I">>
  /\ last.result = FALSE

\* the constraints of a vault configuration in the order of their checks:
\* whether each is violated, the validator that reports it and what its
\* message names
Constraints(c) ==
  LET rate == BigIntOfString(c.rate.str)
      long(text, max) == text = <<>> \/ Len(text) > max
  IN  <<[violated |-> ~(rate.ok /\ ~rate.value.neg /\ rate.value.mag # <<>>),
         at |-> "validateRate", about |-> c.rate],
        [violated |-> c.rateDecimals \notin 0..18,
         at |-> "validateRateDecimals", about |-> c.rateDecimals],
        [violated |-> long(c.symbol, 32),
         at |-> "validateStringLength", about |-> "Symbol"],
        [violated |-> long(c.name, 256),
         at |-> "validateStringLength", about |-> "Name"],
        [violated |-> long(c.description, 1000),
         at |-> "validateStringLength", about |-> "Description"],
        [violated |-> ~WellFormedCoinType(c.inputCoinType),
         at |-> "validateCoinType", about |-> c.inputCoinType],
        [violated |-> ~WellFormedCoinType(c.outputCoinType),
         at |-> "validateCoinType", about |-> c.outputCoinType],
        [violated |-> c.iconUrl.present /\ c.iconUrl.value = Sample.noUrl,
         at |-> "validateUrl", about |-> c.iconUrl.value]>>

Denoted(x) ==
  LET body == IF x.str # <<>> /\ x.str[1] \in {"-", "+"}
              THEN Tail(x.str) ELSE x.str
  IN  CASE x.type = "bigint" -> [ok |-> TRUE, value |-> x.big]
        [] x.type = "string" ->
             IF body # <<>> /\ \A i \in 1..Len(body) : IsDigitChar(body[i])
             THEN [ok |-> TRUE,
                   value |-> Big(x.str[1] = "-" /\ NatOfString(body) # <<>>,
                                 NatOfString(body))]
             ELSE [ok |-> FALSE, value |-> Big(FALSE, <<>>)]
        [] OTHER ->
             IF x.num.kind = "finite" /\ x.num.frac = <<>>
             THEN [ok |-> TRUE,
                   value |-> Big(x.num.neg /\ x.num.int # <<>>, x.num.int)]
             ELSE [ok |-> FALSE, value |-> Big(FALSE, <<>>)]

\* the value is one the validator is to accept
Acceptable(op, x) ==
  /\ Denoted(x).ok
  /\ ~Denoted(x).value.neg
  /\ op \in {"validateRate", "isValidRate"} => Denoted(x).value.mag # <<>>

\* C21: validateAmount accepts a string, number or bigint exactly when it
\* denotes an integer >= 0 and validateRate exactly when it denotes an
\* integer > 0; an accepted value is returned as the exact big integer it
\* denotes, a rejected one is named by the error thrown; isValidAmount and
\* isValidRate return true exactly when the throwing forms do not throw.
C21_AmountRateValidation ==
  /\ last.op \in {"validateAmount", "validateRate"} =>
       /\ last.error = NoError <=> Acceptable(last.op, last.params)
       /\ last.error = NoError => last.result = Denoted(last.params).value
       /\ last.error # NoError =>
            /\ last.error.kind = "Error"
            /\ last.error.about = last.params
  /\ last.op \in {"isValidAmount", "isValidRate"} =>
       /\ last.error = NoError
       /\ last.result = Acceptable(last.op, last.params)

\* a bigint within 0..2^64-1
WithinU64(b) == ~b.neg /\ NatCmp(b.mag, MAX_U64.mag) <= 0

\* C22: every amount that passes validateAmount in withdraw and
\* withdraw_and_transfer, and every rate that passes validateRate in
\* updateRate and createVault, the value handed on to the call builder,
\* lies within 0..2^64-1.
C22_AmountInvariant ==
  /\ last.op \in {"withdraw", "withdraw_and_transfer"}
     /\ validateAmount(last.params.amount).error = NoError
     => WithinU64(validateAmount(last.params.amount).value)
  /\ last.op = "updateRate" /\ validateRate(last.params.newRate).error = NoError
     => WithinU64(validateRate(last.params.newRate).value)
  /\ last.op = "createVault"
     /\ validateVaultConfig(last.params.config) = NoError
     => WithinU64(validateRate(last.params.config.rate).value)

\* ------------------------------------------------------------------------
\* RivaClient.initialize

\* a text that is http:// or https://, in any case, followed by a host of
\* letters, digits, dots and hyphens and then a port, a path or nothing
WellFormedRpcUrl(url) ==
  LET text   == toLowerCase(url)
      scheme == IF startsWith(text, <<"h", "t", "t", "p", "s", ":", "/", "/">>) THEN 8
                ELSE IF startsWith(text, <<"h", "t", "t", "p", ":", "/", "/">>) THEN 7 ELSE 0
      rest   == slice(text, scheme)
      ends   == {i \in 1..Len(rest) : rest[i] \in {"/", ":", "?", "#"}}
      host   == IF ends = {} THEN rest
                ELSE SubSeq(rest, 1,
                            (CHOOSE i \in ends : \A j \in ends : i <= j) - 1)
  IN  /\ scheme > 0
      /\ host # <<>>
      /\ \A i \in 1..Len(host) :
           \/ host[i] \in {LowerChars[k] : k \in 1..26}
           \/ host[i] \in {DigitChars[k] : k \in 1..10}
           \/ host[i] \in {".", "-"}

\* '0x' followed by exactly 64 hex digits
WellFormedPackageId(id) ==
  /\ Len(id) = 66
  /\ id[1] = "0" /\ id[2] = "x"
  /\ \A i \in 3..66 : id[i] \in HexDigits

\* both values of the configuration are present and well-formed
WellConfigured(config) ==
  /\ config.network.present
  /\ config.network.rpcUrl.present
  /\ WellFormedRpcUrl(config.network.rpcUrl.value)
  /\ config.network.packageId.present
  /\ WellFormedPackageId(config.network.packageId.value)

\* C23: initialize returns a client only when the RPC URL is present and a
\* well-formed http/https URL, the package id is present and is '0x'
\* followed by exactly 64 hex digits, and the liveness probe succeeded; it
\* throws VaultError INVALID_PARAMETERS when rpcUrl or packageId is missing
\* or malformed, and then no request is made; it throws VaultError
\* NETWORK_ERROR when the probe fails.
C23_Initialize ==
  last.op = "initialize" =>
    /\ last.error = NoError =>
         /\ WellConfigured(last.params)
         /\ Len(last.responses) = 1 /\ last.responses[1].ok
         /\ last.result = [kind |-> "RivaClient", config |-> last.params]
    /\ ~WellConfigured(last.params) =>
         /\ last.error.kind = "VaultError"
         /\ last.error.code = "INVALID_PARAMETERS"
         /\ last.responses = <<>>
         /\ last.result = Void
    /\ last.responses # <<>> /\ ~last.responses[1].ok =>
         /\ last.error.kind = "VaultError"
         /\ last.error.code = "NETWORK_ERROR"
         /\ last.result = Void
    /\ last.error # NoError =>
         last.error.code \in {"INVALID_PARAMETERS", "NETWORK_ERROR"}

\* a client was returned; a malformed URL, a malformed package id and a
\* failed probe were each refused
C23_Witness ==
  /\ last.op = "initialize"
  /\ last.error = NoError
  /\ last.params.network.rpcUrl.value = <<"h", "t", "t", "p", "s", ":", "/",
                                          "/", "r", "p", "c", ".", "i", "o">>
  /\ last.responses # <<>>

C23_WitnessRefused ==
  /\ last.op = "initialize"
  /\ last.error.code = "NETWORK_ERROR"
  /\ WellConfigured(last.params)

\* ------------------------------------------------------------------------
\* calculateExchange

\* the conversion of amount a at rate r with d decimals: computeOutput when
\* direction is mint, computeInput when it is redeem
Converted(r, a, d, direction) ==
  LET fails(code) == [ok |-> FALSE, code |-> code, value |-> <<>>]
      gives(v) == IF NatCmp(v, MAX_U64.mag) > 0
                  THEN fails("ARITHMETIC_OVERFLOW")
                  ELSE [ok |-> TRUE, code |-> "", value |-> v]
  IN  IF r = <<>> THEN fails("DIVISION_BY_ZERO")
      ELSE IF direction = "redeem"
      THEN IF NatCmp(a, NatDiv(MAX_U64.mag, NatPow10(d))) > 0
           THEN fails("ARITHMETIC_OVERFLOW")
           ELSE gives(NatDiv(NatMul(a, NatPow10(d)), r))
      ELSE IF NatCmp(a, NatDiv(MAX_U64.mag, r)) > 0
           THEN fails("ARITHMETIC_OVERFLOW")
           ELSE gives(NatDiv(NatMul(r, a), NatPow10(d)))

\* the call fetched a vault and was given an amount to accept
Quotable ==
  /\ last.op = "calculateExchange"
  /\ Len(last.responses) = 1
  /\ getVault(last.params.vaultId, last.responses[1]).error = NoError
  /\ Acceptable("validateAmount", last.params.inputAmount)

\* the conversion the call has to quote
QuoteOf ==
  LET fields == last.responses[1].data.content.fields
  IN  Converted(NatOfString(fields.rate),
                Denoted(last.params.inputAmount).value.mag,
                fields.rate_decimals, last.params.direction)

\* C24: calculateExchange returns a quote in which inputAmount is the
\* validated amount of the caller, rate and rateDecimals are the values
\* fetched for the vault in that call (one fetch per call), outputAmount is
\* computeOutput(rate, amount, rateDecimals) when direction is mint or not
\* given and computeInput(rate, amount, rateDecimals) when it is redeem,
\* and priceImpact is '0'; an error of the numeric engine reaches the
\* caller and no quote is returned.
C24_Quote ==
  last.op = "calculateExchange" =>
    /\ Len(last.responses) <= 1
    /\ last.error # NoError => last.result = Void
    /\ last.error = NoError => Quotable
    /\ Quotable /\ QuoteOf.ok =>
         /\ last.error = NoError
         /\ last.result =
              [inputAmount  |->
                 NatToString(Denoted(last.params.inputAmount).value.mag),
               outputAmount |-> NatToString(QuoteOf.value),
               rate         |-> last.responses[1].data.content.fields.rate,
               rateDecimals |->
                 last.responses[1].data.content.fields.rate_decimals,
               priceImpact  |-> <<"0">>]
    /\ Quotable /\ ~QuoteOf.ok =>
         /\ last.error.kind = "VaultError"
         /\ last.error.code = QuoteOf.code

\* ------------------------------------------------------------------------
\* The accumulator

\* an accumulator with a history of its own: the vault and a coin as object
\* inputs, a pure input, and more calls than a behaviour appends
Other ==
  [inputs   |-> <<[kind |-> "Object", type |-> "", value |-> Sample.vault],
                  [kind |-> "Pure", type |-> "u64", value |-> Big(FALSE, <<7>>)],
                  [kind |-> "Object", type |-> "", value |-> Sample.coin]>>,
   commands |-> [k \in 1..(4 * (MaxOps + 1)) |->
                   [kind          |-> "MoveCall",
                    target        |-> <<"0", "x", "2", ":", ":", "c", "o",
                                        "i", "n", ":", ":", "z", "e", "r",
                                        "o">>,
                    typeArguments |-> <<Sample.sui>>,
                    arguments     |-> <<>>]]]

\* the operation that settled last, run again on the accumulator t with
\* the same parameters and the same answers to its queries
Again(t) ==
  LET failed == [ok |-> FALSE, type |-> [present |-> FALSE, value |-> <<>>]]
      first  == IF last.responses = <<>> THEN failed ELSE last.responses[1]
      second == IF last.responses = <<>> THEN failed
                ELSE last.responses[Len(last.responses)]
  IN  CASE last.op = "createVault" ->
             createVault(t, last.params.config, last.params.outputCoinTreasury)
        [] last.op = "mint" -> mint(t, last.params)
        [] last.op = "mint_and_transfer" -> mint_and_transfer(t, last.params)
        [] last.op = "redeem" -> redeem(t, last.params)
        [] last.op = "redeem_and_transfer" ->
             redeem_and_transfer(t, last.params)
        [] last.op = "deposit" -> deposit(t, last.params, first)
        [] last.op = "withdraw" -> withdraw(t, last.params, first)
        [] last.op = "withdraw_and_transfer" ->
             withdraw_and_transfer(t, last.params, first)
        [] last.op = "updateRate" -> updateRate(t, last.params, first, second)

\* an argument without its position in the accumulator: the input it
\* refers to, the distance of a result of the operation's own calls from
\* the first of them, or the handle the caller gave
Resolved(a, from, to) ==
  IF a.kind = "Input" THEN to.inputs[a.index]
  ELSE IF a.kind = "NestedResult" /\ a.index > Len(from.commands)
  THEN Arg("Own", a.index - Len(from.commands))
  ELSE a

\* the calls appended between the accumulator from and the accumulator to:
\* kind, target, type arguments, and the arguments in their order
CallsBetween(from, to) ==
  LET new == SubSeq(to.commands, Len(from.commands) + 1, Len(to.commands))
      all(args) == [i \in 1..Len(args) |-> Resolved(args[i], from, to)]
  IN  [k \in 1..Len(new) |->
         IF new[k].kind = "MoveCall"
         THEN [kind          |-> "MoveCall",
               target        |-> new[k].target,
               typeArguments |-> new[k].typeArguments,
               arguments     |-> all(new[k].arguments)]
         ELSE [kind      |-> "TransferObjects",
               target    |-> <<>>,
               typeArguments |-> <<>>,
               arguments |-> all(new[k].objects)
                             \o <<Resolved(new[k].address, from, to)>>]]

\* C25: the calls an operation appends (targets, type arguments, number and
\* order of arguments, values of the pure arguments) are determined by its
\* arguments alone: on the accumulator it was given, whatever its history,
\* and on an accumulator with another history it appends the same calls,
\* throws the same error and returns the same handle.
C25_Stateless ==
  last.op # "none" =>
    LET again == Again(Other)
    IN  /\ last.error = again.error
        /\ CallsBetween(last.before, tx) = CallsBetween(Other, again.tx)
        /\ Resolved(last.result, last.before, tx)
             = Resolved(again.result, Other, again.tx)

\* a second operation has appended calls that use an object input the
\* first one registered
C25_Witness ==
  /\ last.op # "none"
  /\ last.error = NoError
  /\ last.before.commands # <<>>
  /\ Len(tx.commands) > Len(last.before.commands)
  /\ \E k \in 1..Len(tx.commands) - Len(last.before.commands) :
       LET call == tx.commands[Len(last.before.commands) + k]
       IN  /\ call.kind = "MoveCall"
           /\ \E i \in 1..Len(call.arguments) :
                /\ call.arguments[i].kind = "Input"
                /\ call.arguments[i].index <= Len(last.before.inputs)

\* C26: the accumulator is append-only: in every step, of an invocation, of
\* an answered query or of an operation that runs to its end, every call
\* the accumulator held is still there, unchanged and at its position, and
\* the calls of the operation that settles come after all of them; nothing
\* is removed, reordered or executed.
C26_AppendOnly ==
  [][/\ Len(tx'.commands) >= Len(tx.commands)
     /\ SubSeq(tx'.commands, 1, Len(tx.commands)) = tx.commands
     /\ last' # last => last'.before.commands = tx.commands]_vars

\* two operations, the second invoked after the first had settled, have
\* each appended calls
C26_Witness ==
  /\ started = 2
  /\ pending = {}
  /\ last.responses = <<>>
  /\ last.before.commands # <<>>
  /\ Len(tx.commands) > Len(last.before.commands)
  /\ SubSeq(tx.commands, 1, Len(last.before.commands)) = last.before.commands

\* the call an operation that transfers makes before it transfers
OwnFunction(op) ==
  CASE op = "mint_and_transfer" -> VAULT_FUNCTIONS.MINT
    [] op = "redeem_and_transfer" -> VAULT_FUNCTIONS.REDEEM
    [] op = "withdraw_and_transfer" -> VAULT_FUNCTIONS.WITHDRAW

\* C28: with facade operations interleaved on one accumulator, each
\* suspended only at its queries, the calls of a mint_and_transfer,
\* redeem_and_transfer or withdraw_and_transfer stay together: every
\* transfer in the accumulator stands immediately behind a mint, redeem or
\* withdraw call and transfers the handle that call returned, and the
\* operation that has just returned has appended its own call and, next to
\* it, its transfer of the result of that call.
C28_TransferContiguous ==
  /\ \A k \in 1..Len(tx.commands) :
       tx.commands[k].kind = "TransferObjects" =>
         /\ k > 1
         /\ tx.commands[k - 1].kind = "MoveCall"
         /\ tx.commands[k - 1].target
              \in {VaultTarget(PackageId, OwnFunction(op)) :
                     op \in {"mint_and_transfer", "redeem_and_transfer",
                             "withdraw_and_transfer"}}
         /\ tx.commands[k].objects = <<Arg("NestedResult", k - 1)>>
  /\ \A op \in {"mint_and_transfer", "redeem_and_transfer",
                "withdraw_and_transfer"} :
       Succeeded(op) =>
         /\ Len(Appended) = 2
         /\ Appended[1].kind = "MoveCall"
         /\ Appended[1].target = VaultTarget(PackageId, OwnFunction(op))
         /\ StandsFor(Appended[1].arguments[IF op = "withdraw_and_transfer"
                                            THEN 2 ELSE 1],
                      Str(last.params.vaultId))
         /\ Appended[2].kind = "TransferObjects"
         /\ Appended[2].objects = <<ResultOf(1)>>

\* a withdraw_and_transfer, suspended at its query, has returned and
\* appended its two calls while another operation, invoked without
\* awaiting it, is suspended at its own query
C28_Witness ==
  /\ Succeeded("withdraw_and_transfer")
  /\ Len(last.responses) = 1
  /\ pending # {}

\* a withdraw_and_transfer that was suspended at its query has returned
\* behind the call of another operation
C28_WitnessBehind ==
  /\ Succeeded("withdraw_and_transfer")
  /\ Len(last.responses) = 1
  /\ last.before.commands # <<>>

\* ------------------------------------------------------------------------
\* retry(): one call in a behaviour
\* ------------------------------------------------------------------------

RetryNext ==
  \/ Retry
  \/ FnResolves
  \/ FnRejects
  \/ Wake

\* every invocation of fn settles and every timer fires
RetrySpec ==
  /\ Init
  /\ [][RetryNext]_vars
  /\ WF_vars(FnResolves \/ FnRejects)
  /\ WF_vars(Wake)

\* the first k delays of a call: min(baseDelay * backoffMultiplier^(i-1),
\* maxDelay) after the i-th failed attempt
Waits(r, k) ==
  [i \in 1..k |->
     LET d == r.baseDelay * Pow(r.backoffMultiplier, i - 1)
     IN  IF d < r.maxDelay THEN d ELSE r.maxDelay]

\* what holds of a call with maxAttempts >= 1 at every moment
RetryBounded ==
  LET r == retrying
      failed == IF r.settled # <<>> /\ r.settled[Len(r.settled)] = "resolved"
                THEN Len(r.settled) - 1 ELSE Len(r.settled)
  IN  r.pc # "idle" /\ r.maxAttempts >= 1 =>
        /\ r.calls <= r.maxAttempts
        /\ r.running <= 1
        /\ r.running = 1 <=> r.pc = "calling"
        /\ Len(r.settled) + r.running = r.calls
        /\ \A i \in 1..Len(r.settled) - 1 : r.settled[i] = "rejected"
        /\ r.outcome.kind = "resolved" =>
             /\ r.pc = "done"
             /\ r.settled[Len(r.settled)] = "resolved"
             /\ r.outcome.value = r.calls
        /\ r.outcome.kind = "rejected" =>
             /\ r.pc = "done"
             /\ r.calls = r.maxAttempts
             /\ failed = r.maxAttempts
             /\ r.outcome.value = r.maxAttempts
        /\ r.delays = Waits(r, IF failed = r.maxAttempts THEN failed - 1
                               ELSE failed)
        /\ r.pc = "sleeping" => failed < r.maxAttempts

C29_WitnessRejected ==
  /\ retrying.pc = "done"
  /\ retrying.maxAttempts = 2
  /\ retrying.outcome = [kind |-> "rejected", value |-> 2]
  /\ Len(retrying.delays) = 1

\* ------------------------------------------------------------------------
\* The coin registry: registrations and lookups in any order
\* ------------------------------------------------------------------------

RegistryNext ==
  \/ RegisterCoin
  \/ RegisterCoins
  \/ GetCoinMetadata
  \/ GetCoinDecimals

RegistrySpec == Init /\ [][RegistryNext]_vars

\* the metadata registered last for the type t in a batch, if any
LastIn(coins, t) ==
  LET of == {i \in 1..Len(coins) : coins[i].type = t}
  IN  IF of = {} THEN Void
      ELSE coins[CHOOSE i \in of : \A j \in of : j <= i]

\* C30: after any sequence of registerCoin / registerCoins calls the
\* lookups reflect the most recent registration of every type: a
\* registration leaves in the registry the metadata it registered last for
\* each of its types and leaves the entries of all other types as they
\* were; getCoinMetadata(t) returns the entry of t and getCoinDecimals(t)
\* the decimals of that entry, whatever they are (also 0); for a type
\* without entry getCoinMetadata returns undefined and getCoinDecimals 9.
C30_ReadAfterWrite ==
  LET registered(t) ==
        CASE last.op = "registerCoin" ->
               IF last.params.type = t THEN last.params ELSE Void
          [] last.op = "registerCoins" -> LastIn(last.params, t)
          [] OTHER -> Void
      types == DOMAIN COIN_REGISTRY \cup DOMAIN last.before
  IN  /\ last.op \in {"registerCoin", "registerCoins"} =>
           \A t \in types \cup LookedUp :
             IF registered(t) # Void
             THEN t \in DOMAIN COIN_REGISTRY /\ COIN_REGISTRY[t] = registered(t)
             ELSE /\ t \in DOMAIN COIN_REGISTRY <=> t \in DOMAIN last.before
                  /\ t \in DOMAIN COIN_REGISTRY =>
                       COIN_REGISTRY[t] = last.before[t]
      /\ last.op \in {"getCoinMetadata", "getCoinDecimals"} =>
           COIN_REGISTRY = last.before
      /\ last.op = "getCoinMetadata" =>
           last.result = IF last.params \in DOMAIN COIN_REGISTRY
                         THEN COIN_REGISTRY[last.params] ELSE Void
      /\ last.op = "getCoinDecimals" =>
           last.result = IF last.params \in DOMAIN COIN_REGISTRY
                         THEN COIN_REGISTRY[last.params].decimals ELSE 9

=============================================================================
